---- MODULE Spec2Model ----
(***************************************************************************)
(* A model of the x402 Go SDK's payment core (gatechain/x402):             *)
(*   - ExactEvmScheme.CreatePaymentPayload and its signing helpers         *)
(*     (go/mechanisms/evm/exact/client/scheme.go),                         *)
(*   - HTTPFacilitatorClient Verify / Settle / GetSupported                *)
(*     (go/http/facilitator_client.go),                                    *)
(*   - the payment retry orchestrator of the wrapped HTTP client.          *)
(* Spec is one caller of the scheme, ConcSpec two callers at once, FacSpec *)
(* one caller of the facilitator client, SharedSpec two goroutines on one  *)
(* scheme object and one client, OrchSpec one outbound request through the *)
(* orchestrator, FairOrchSpec the same under fair scheduling, and EncSpec   *)
(* the struct encoding of signWithDomainSeparator byte by byte.            *)
(* Byte strings are sequences of 0..255, decimal and hex strings are       *)
(* sequences of one-character strings, Keccak256 and signatures are ideal  *)
(* (injective) constructors over their inputs.                             *)
(***************************************************************************)
EXTENDS Integers, Sequences, FiniteSets, TLC

VARIABLES
    ethClient,      \* ExactEvmScheme.ethClient: "nil" or "client"
    generated,      \* how many nonces the system's random source has handed out
    pc,             \* per caller: position of its CreatePaymentPayload call
    req,            \* per caller: the requirements of its current call
    locals,         \* per caller: time of the call, chainID, asset, tokenName, tokenVersion
    auth,           \* per caller: the authorization built by the call
    signerCalls,    \* per caller: invocations of the signing capability
    signerResults,  \* per caller: for each invocation that returned, its success
    chainQueries,   \* per caller: CallContract invocations made by the call
    chainAnswer,    \* per caller: what the last CallContract answered
    ret,            \* per caller: what the call returned: [payload, err]
    ctx,            \* per caller: the context passed to the call
    url,            \* HTTPFacilitatorClient.url
    authProvider,   \* HTTPFacilitatorClient.authProvider
    fpc,            \* position of the facilitator call
    fop,            \* "verify", "settle" or "supported"
    fin,            \* inputs of the facilitator call
    fwire,          \* the HTTP request handed to httpClient.Do
    fsends,         \* httpClient.Do invocations made by the call
    fdo,            \* what httpClient.Do did: outcome of the exchange
    fret,           \* what the call returned: [ok, result, err]
    peer,           \* a second goroutine's call on the same client, as a record
    registry,       \* payment client: the networks an exact scheme is registered for
    ostate,         \* retry orchestrator: state of the outbound request
    offers,         \* the requirements entries of the 402 response, in server order
    selected,       \* index of the entry the payload is built for, 0 for none
    requests,       \* the requests sent to the resource server, in order
    builds,         \* CreatePaymentPayload calls made for the request
    signings,       \* signer invocations made for the request
    ending,         \* what the request ended with: [status, failure]
    enc             \* signWithDomainSeparator's struct encoding: [pc, authorization, encoded, structHash]

schemeVars == <<ethClient, generated, pc, req, locals, auth, signerCalls, signerResults, chainQueries,
                chainAnswer, ret, ctx>>
facVars == <<url, authProvider, fpc, fop, fin, fwire, fsends, fdo, fret, peer>>
orchVars == <<registry, ostate, offers, selected, requests, builds, signings, ending>>
encVars == <<enc>>
vars == <<ethClient, generated, pc, req, locals, auth, signerCalls, signerResults, chainQueries,
          chainAnswer, ret, ctx,
          url, authProvider, fpc, fop, fin, fwire, fsends, fdo, fret, peer,
          registry, ostate, offers, selected, requests, builds, signings, ending, enc>>

----------------------------------------------------------------------------
(* Bounds of the model *)

MaxAmountLen == 2
MaxNonce == 3
MaxTime == 2
MaxOffers == 3

----------------------------------------------------------------------------
(* Strings and bytes *)

Digits == <<"0", "1", "2", "3", "4", "5", "6", "7", "8", "9">>

DigitSet == {Digits[i] : i \in 1..10}

DigitVal(c) == (CHOOSE i \in 1..10 : Digits[i] = c) - 1

HexChars == <<"0", "1", "2", "3", "4", "5", "6", "7", "8", "9",
              "a", "b", "c", "d", "e", "f">>

HexSet == {HexChars[i] : i \in 1..16}

HexVal(c) == (CHOOSE i \in 1..16 : HexChars[i] = c) - 1

\* hex.DecodeString: an odd length or a non-hex character is an error, and the
\* caller (scheme.go:109) drops the error and keeps the bytes decoded so far;
\* the model returns no bytes in that case.
HexDecodeString(s) ==
    IF Len(s) % 2 # 0 \/ \E i \in 1..Len(s) : s[i] \notin HexSet
    THEN <<>>
    ELSE [i \in 1..(Len(s) \div 2) |-> 16 * HexVal(s[2 * i - 1]) + HexVal(s[2 * i])]

RECURSIVE DigitsValue(_)
DigitsValue(s) ==
    IF Len(s) = 0 THEN 0
    ELSE 10 * DigitsValue(SubSeq(s, 1, Len(s) - 1)) + DigitVal(s[Len(s)])

\* big.Int.SetString(s, 10): an optional sign, then one or more decimal digits,
\* and nothing else. Returns [ok, val].
SetString(s) ==
    LET signed == Len(s) > 0 /\ s[1] \in {"+", "-"}
        body == IF signed THEN SubSeq(s, 2, Len(s)) ELSE s
        good == Len(body) > 0 /\ \A i \in 1..Len(body) : body[i] \in DigitSet
    IN IF ~good THEN [ok |-> FALSE, val |-> 0]
       ELSE [ok |-> TRUE,
             val |-> IF signed /\ s[1] = "-" THEN 0 - DigitsValue(body)
                     ELSE DigitsValue(body)]

RECURSIVE NatString(_)
NatString(n) ==
    IF n < 10 THEN <<Digits[n + 1]>>
    ELSE NatString(n \div 10) \o <<Digits[(n % 10) + 1]>>

\* big.Int.String(): canonical decimal, "-" for negative values.
IntString(v) == IF v < 0 THEN <<"-">> \o NatString(0 - v) ELSE NatString(v)

\* big.Int.Bytes(): the big-endian bytes of the ABSOLUTE value; the model keeps
\* the number those bytes denote.
BigIntBytes(v) == IF v < 0 THEN 0 - v ELSE v

----------------------------------------------------------------------------
(* Networks and assets: go/mechanisms/evm/constants.go *)

ChainIDGateLayerTestnet == 10087

GateLayerUSDC == "0x9be8Df37C788B244cFc28E46654aD5Ec28a880AF"

OtherToken == "0x833589fCD6eDb6E08f4c7C32D4f71b54bdA02913"

DefaultAssetGateLayer ==
    [Address |-> GateLayerUSDC, Name |-> "USDC", Version |-> "2"]

ConfiguredNetworks == {"gatelayer_testnet", "eip155:10087"}

NetworkConfigs ==
    [n \in ConfiguredNetworks |->
        [ChainID |-> ChainIDGateLayerTestnet, DefaultAsset |-> DefaultAssetGateLayer]]

\* The network identifiers the model offers: the two configured ones, an
\* EIP-155 network without configuration, and a non-EVM identifier.
Networks == {"gatelayer_testnet", "eip155:10087", "eip155:8453", "solana:devnet"}

\* The numeric reference of a CAIP-2 "eip155:<n>" identifier, 0 when the
\* identifier has no such form.
Eip155Reference(network) ==
    CASE network = "eip155:10087" -> 10087
      [] network = "eip155:8453" -> 8453
      [] OTHER -> 0

\* evm.GetEvmChainId: a configured network's chain id, else the reference of
\* an eip155:<n> identifier, else an error (unsupported network).
GetEvmChainId(network) ==
    IF network \in ConfiguredNetworks
    THEN [ok |-> TRUE, chainID |-> NetworkConfigs[network].ChainID]
    ELSE IF Eip155Reference(network) # 0
    THEN [ok |-> TRUE, chainID |-> Eip155Reference(network)]
    ELSE [ok |-> FALSE, chainID |-> 0]

\* evm.GetAssetInfo: an explicit address is used as given (with the defaults
\* of the network's default asset when it is that asset, and no name/version
\* otherwise); no address means the network's default asset, an error when the
\* network has none.
GetAssetInfo(network, asset) ==
    IF asset # ""
    THEN IF network \in ConfiguredNetworks
            /\ NetworkConfigs[network].DefaultAsset.Address = asset
         THEN [ok |-> TRUE, info |-> NetworkConfigs[network].DefaultAsset]
         ELSE [ok |-> TRUE, info |-> [Address |-> asset, Name |-> "", Version |-> ""]]
    ELSE IF network \in ConfiguredNetworks
    THEN [ok |-> TRUE, info |-> NetworkConfigs[network].DefaultAsset]
    ELSE [ok |-> FALSE, info |-> [Address |-> "", Name |-> "", Version |-> ""]]

----------------------------------------------------------------------------
(* Inputs of CreatePaymentPayload *)

AmountChars == {"0", "1", "-", "+", "."}

RECURSIVE StringsUpTo(_, _)
StringsUpTo(chars, n) ==
    IF n = 0 THEN {<<>>}
    ELSE LET shorter == StringsUpTo(chars, n - 1)
         IN shorter \cup {Append(s, c) : s \in shorter, c \in chars}

Amounts == StringsUpTo(AmountChars, MaxAmountLen)

\* A value of requirements.Extra[key]: absent, a string, or a non-string.
ExtraValues(strings) ==
    {[present |-> FALSE, isString |-> FALSE, str |-> ""],
     [present |-> TRUE, isString |-> FALSE, str |-> ""]}
    \cup {[present |-> TRUE, isString |-> TRUE, str |-> x] : x \in strings}

Requirements ==
    [Network : Networks,
     Asset : {"", GateLayerUSDC, OtherToken},
     Amount : Amounts,
     PayTo : {"0x209693Bc6afc0C5328bA36FaF03C514EF312287C"},
     ExtraName : ExtraValues({"Token"}),
     ExtraVersion : ExtraValues({"1"})]

SignerAddress == "0x70997970C51812dc3A010C7d01b50e0d17dc79C8"

Nonces == 1..MaxNonce

Times == 1..MaxTime

\* evm.CreateNonce: 32 random bytes from the system's source, or its error.
\* The source is ideal: it never hands out the same 32 bytes twice. The k-th
\* value it hands out is named k, and it hands out MaxNonce values at most.
NonceOutcomes == {[ok |-> TRUE, nonce |-> n] : n \in Nonces \cap {generated + 1}}
                 \cup {[ok |-> FALSE, nonce |-> 0]}

ValidityWindowSeconds == 3600

\* evm.CreateValidityWindow(time.Hour) at time now: no buffer on validAfter.
CreateValidityWindow(now) ==
    [validAfter |-> now, validBefore |-> now + ValidityWindowSeconds]

----------------------------------------------------------------------------
(* Errors and return values of CreatePaymentPayload *)

NoErr == [kind |-> "nil", cause |-> "nil"]

Err(kind, cause) == [kind |-> kind, cause |-> cause]

NoAuth == [From |-> "", To |-> "", Value |-> <<>>, ValidAfter |-> <<>>,
           ValidBefore |-> <<>>, Nonce |-> 0]

NoSignature == [by |-> "", method |-> "", over |-> <<>>]

\* types.PaymentPayload{}
ZeroPayload == [X402Version |-> 0, Signature |-> NoSignature, Authorization |-> NoAuth]

----------------------------------------------------------------------------
(* Digest construction: scheme.go, signWithDomainSeparator *)

\* crypto.Keccak256 as an ideal hash: the hash of x is the term keccak256(x).
Keccak256(x) == [keccak256 |-> x]

TransferWithAuthorizationType ==
    "TransferWithAuthorization(address from,address to,uint256 value,uint256 validAfter,uint256 validBefore,bytes32 nonce)"

SeparatorLen == 32

\* The 32-byte words of the encoded struct, each tagged with what it holds.
Word(tag, v) == [t |-> tag, v |-> v]

\* common.HexToAddress: the 20 bytes a hex string denotes, whatever the case
\* of its letters; a string that is no hex address denotes the zero address.
HexToAddress(s) ==
    CASE s \in {"0x70997970C51812dc3A010C7d01b50e0d17dc79C8",
                "0x70997970c51812dc3a010c7d01b50e0d17dc79c8"}
            -> "70997970c51812dc3a010c7d01b50e0d17dc79c8"
      [] s \in {"0x209693Bc6afc0C5328bA36FaF03C514EF312287C",
                "0x209693bc6afc0c5328ba36faf03c514ef312287c"}
            -> "209693bc6afc0c5328ba36faf03c514ef312287c"
      [] OTHER -> "0000000000000000000000000000000000000000"

\* The encoding with the words of from and to in each other's place.
EncodeAuthorizationSwapped(a) ==
    <<Word("hash", Keccak256(TransferWithAuthorizationType)),
      Word("address", HexToAddress(a.To)),
      Word("address", HexToAddress(a.From)),
      Word("uint256", BigIntBytes(SetString(a.Value).val)),
      Word("uint256", BigIntBytes(SetString(a.ValidAfter).val)),
      Word("uint256", BigIntBytes(SetString(a.ValidBefore).val)),
      Word("bytes32", a.Nonce)>>

\* abi.encode(typeHash, from, to, value, validAfter, validBefore, nonce):
\* the values are re-parsed from the authorization's strings with the parse
\* result's ok flag dropped, and written as the bytes of their absolute value.
EncodeAuthorization(a) ==
    <<Word("hash", Keccak256(TransferWithAuthorizationType)),
      Word("address", HexToAddress(a.From)),
      Word("address", HexToAddress(a.To)),
      Word("uint256", BigIntBytes(SetString(a.Value).val)),
      Word("uint256", BigIntBytes(SetString(a.ValidAfter).val)),
      Word("uint256", BigIntBytes(SetString(a.ValidBefore).val)),
      Word("bytes32", a.Nonce)>>

StructHash(a) == Keccak256(EncodeAuthorization(a))

\* keccak256(0x19 || 0x01 || domainSeparator || structHash)
Digest(a, domainSeparator) ==
    Keccak256([prefix |-> <<25, 1>>,
               domainSeparator |-> domainSeparator,
               structHash |-> StructHash(a)])

\* The SignTypedData request of signAuthorization's fallback.
TypedData(a, chainID, verifyingContract, tokenName, tokenVersion) ==
    [domain |-> [Name |-> tokenName, Version |-> tokenVersion,
                 ChainID |-> chainID, VerifyingContract |-> verifyingContract],
     primaryType |-> "TransferWithAuthorization",
     message |-> [from |-> a.From, to |-> a.To,
                  value |-> SetString(a.Value).val,
                  validAfter |-> SetString(a.ValidAfter).val,
                  validBefore |-> SetString(a.ValidBefore).val,
                  nonce |-> a.Nonce]]

\* An invocation of the signing capability.
SignerCall(method, arg) == [method |-> method, arg |-> arg]

\* The signature an honest capability returns for an invocation.
SignatureOf(call) == [by |-> SignerAddress, method |-> call.method, over |-> call.arg]

----------------------------------------------------------------------------
(* Domain separator resolution: scheme.go *)

PinnedSeparatorHex ==
    <<"2", "c", "2", "d", "6", "b", "6", "2", "1", "e", "7", "3", "a", "4", "a", "0",
      "9", "4", "4", "4", "9", "d", "1", "8", "9", "4", "7", "1", "7", "4", "1", "3",
      "7", "4", "2", "1", "3", "0", "f", "b", "2", "0", "1", "4", "9", "e", "c", "4",
      "8", "3", "4", "0", "c", "a", "0", "3", "5", "4", "d", "1", "a", "7", "0", "7">>

PinnedDomainSeparator == HexDecodeString(PinnedSeparatorHex)

\* scheme.go:107 and :110, the test that selects the pinned separator.
IsPinned(networkStr, assetAddress) ==
    /\ networkStr = "gatelayer_testnet"
    /\ assetAddress = GateLayerUSDC
    /\ Len(PinnedDomainSeparator) = SeparatorLen

\* n copies of the byte b.
Repeat(b, n) == [i \in 1..n |-> b]

\* What the token contract's DOMAIN_SEPARATOR call can answer: nothing, one
\* byte too few, exactly 32 bytes (two different values), and more than 32.
ChainResults ==
    {<<>>,
     Repeat(170, SeparatorLen - 1),
     Repeat(170, SeparatorLen),
     Repeat(187, SeparatorLen),
     Repeat(170, SeparatorLen) \o <<1, 2>>}

\* ethClient.CallContract: an error, or the returned bytes.
ChainOutcomes == {[err |-> TRUE, result |-> <<>>]}
                 \cup {[err |-> FALSE, result |-> b] : b \in ChainResults}

\* queryDomainSeparator returning the whole result instead of result[:32].
QueryDomainSeparatorWhole(outcome) ==
    IF outcome.err THEN [ok |-> FALSE, sep |-> <<>>]
    ELSE IF Len(outcome.result) < SeparatorLen THEN [ok |-> FALSE, sep |-> <<>>]
    ELSE [ok |-> TRUE, sep |-> outcome.result]

\* queryDomainSeparator without its length check.
QueryDomainSeparatorUnchecked(outcome) ==
    IF outcome.err THEN [ok |-> FALSE, sep |-> <<>>]
    ELSE [ok |-> TRUE,
          sep |-> IF Len(outcome.result) < SeparatorLen THEN outcome.result
                  ELSE SubSeq(outcome.result, 1, SeparatorLen)]

\* queryDomainSeparator, after CallContract returned: [ok, sep].
QueryDomainSeparator(outcome) ==
    IF outcome.err THEN [ok |-> FALSE, sep |-> <<>>]
    ELSE IF Len(outcome.result) < SeparatorLen THEN [ok |-> FALSE, sep |-> <<>>]
    ELSE [ok |-> TRUE, sep |-> SubSeq(outcome.result, 1, SeparatorLen)]

\* A query that is made again, up to three times, when it failed.
QueryAgainOnError(outcome, queries) == outcome.err /\ queries < 3

\* signAuthorization calls queryDomainSeparator once, outside any loop, and
\* drops its error (scheme.go:155-160): whatever came back, no second query.
QueryAgain(outcome, queries) == FALSE

\* signAuthorization's first step: query the chain only when a client is set.
SignAuthorizationFirst(client) ==
    IF client # "nil" THEN "chainQuery" ELSE "typedSign"

\* signAuthorization after the query: the digest path when a separator came
\* back, the typed-data fallback otherwise.
SignAuthorizationAfterQuery(outcome) ==
    IF QueryDomainSeparator(outcome).ok THEN "digestSign" ELSE "typedSign"

----------------------------------------------------------------------------
(* ExactEvmScheme: scheme.go *)

\* The goroutines that call CreatePaymentPayload on the one scheme object.
Callers == {1, 2}

NoRequirements ==
    [Network |-> "", Asset |-> "", Amount |-> <<>>, PayTo |-> "",
     ExtraName |-> [present |-> FALSE, isString |-> FALSE, str |-> ""],
     ExtraVersion |-> [present |-> FALSE, isString |-> FALSE, str |-> ""]]

NoLocals == [now |-> 0, chainID |-> 0, assetAddress |-> "", tokenName |-> "",
             tokenVersion |-> ""]

NoAnswer == [err |-> FALSE, result |-> <<>>]

Returned(payload, err) == [payload |-> payload, err |-> err]

\* context.Context as the call sees it: whether it is cancelled and, for the
\* record, how many external calls (chain reads and signer invocations) the
\* call had started when the cancellation came.
LiveContext == [cancelled |-> FALSE, started |-> 0]

CancelledContext(started) == [cancelled |-> TRUE, started |-> started]

\* The positions at which the call waits for an external call to return.
InFlight == {"pinnedSign", "chainQuery", "digestSign", "typedSign"}

\* Extra taken whenever the key is present, whatever the type of its value.
ResolveExtraAnyValue(default, extra) ==
    IF extra.present THEN extra.str ELSE default

\* scheme.go:85-94: the asset's default unless Extra holds a string.
ResolveExtra(default, extra) ==
    IF extra.present /\ extra.isString THEN extra.str ELSE default

\* The authorization with a 30 second buffer taken off validAfter.
AuthorizationBuffered(from, to, value, window, nonce) ==
    [From |-> from,
     To |-> to,
     Value |-> IntString(value),
     ValidAfter |-> IntString(window.validAfter - 30),
     ValidBefore |-> IntString(window.validBefore),
     Nonce |-> nonce]

\* The authorization with the nonce of an earlier call in place of its own.
AuthorizationStaleNonce(from, to, value, window, nonce) ==
    [From |-> from,
     To |-> to,
     Value |-> IntString(value),
     ValidAfter |-> IntString(window.validAfter),
     ValidBefore |-> IntString(window.validBefore),
     Nonce |-> 1]

\* scheme.go:97-104: the authorization of the call.
Authorization(from, to, value, window, nonce) ==
    [From |-> from,
     To |-> to,
     Value |-> IntString(value),
     ValidAfter |-> IntString(window.validAfter),
     ValidBefore |-> IntString(window.validBefore),
     Nonce |-> nonce]

\* A payload whose authorization carries another value than the signed one.
PayloadOfOtherValue(signature, a) ==
    [X402Version |-> 2, Signature |-> signature,
     Authorization |-> [a EXCEPT !.Value = <<"0">>]]

\* scheme.go:113-120 and :132-141: the payload returned on success.
PayloadOf(signature, a) ==
    [X402Version |-> 2, Signature |-> signature, Authorization |-> a]

\* SetRPCURL: a successful dial stores the client, a failed one stores nothing.
\* It is part of the scheme's setup: no call is running.
SetRPCURL(dialOk) ==
    /\ \A c \in Callers : pc[c] = "idle"
    /\ ethClient' = IF dialOk THEN "client" ELSE ethClient
    /\ UNCHANGED <<generated, pc, req, locals, auth, signerCalls, signerResults,
                   chainQueries, chainAnswer, ret, ctx>>

\* The call of signAuthorization (scheme.go:126, :153-206) up to its first
\* external call: the chain query when a client is set, else SignTypedData.
EnterSignAuthorization(c, a, l, calls, queries) ==
    IF SignAuthorizationFirst(ethClient) = "chainQuery"
    THEN /\ pc' = [pc EXCEPT ![c] = "chainQuery"]
         /\ chainQueries' = [chainQueries EXCEPT ![c] = queries + 1]
         /\ signerCalls' = [signerCalls EXCEPT ![c] = calls]
    ELSE /\ pc' = [pc EXCEPT ![c] = "typedSign"]
         /\ chainQueries' = [chainQueries EXCEPT ![c] = queries]
         /\ signerCalls' = [signerCalls EXCEPT ![c] = Append(calls,
               SignerCall("SignTypedData",
                   TypedData(a, l.chainID, l.assetAddress, l.tokenName, l.tokenVersion)))]

\* An early return of CreatePaymentPayload with an error.
FailEarly(c, err) ==
    /\ pc' = [pc EXCEPT ![c] = "done"]
    /\ ret' = [ret EXCEPT ![c] = Returned(ZeroPayload, err)]
    /\ locals' = [locals EXCEPT ![c] = NoLocals]
    /\ auth' = [auth EXCEPT ![c] = NoAuth]
    /\ signerCalls' = [signerCalls EXCEPT ![c] = <<>>]
    /\ chainQueries' = [chainQueries EXCEPT ![c] = 0]

\* CreatePaymentPayload, scheme.go:51-126, up to its first external call.
CreatePaymentPayload(c, r, n, now) ==
    /\ pc[c] = "idle"
    /\ req' = [req EXCEPT ![c] = r]
    /\ ctx' = [ctx EXCEPT ![c] = LiveContext]
    /\ chainAnswer' = [chainAnswer EXCEPT ![c] = NoAnswer]
    /\ signerResults' = [signerResults EXCEPT ![c] = <<>>]
    /\ LET chain == GetEvmChainId(r.Network)
           asset == GetAssetInfo(r.Network, r.Asset)
           value == SetString(r.Amount)
           window == CreateValidityWindow(now)
           l == [now |-> now,
                 chainID |-> chain.chainID,
                 assetAddress |-> asset.info.Address,
                 tokenName |-> ResolveExtra(asset.info.Name, r.ExtraName),
                 tokenVersion |-> ResolveExtra(asset.info.Version, r.ExtraVersion)]
           a == Authorization(SignerAddress, r.PayTo, value.val, window, n.nonce)
       IN IF ~chain.ok
          THEN FailEarly(c, Err("UnsupportedNetwork", "nil")) /\ UNCHANGED generated
          ELSE IF ~asset.ok
          THEN FailEarly(c, Err("NoDefaultAsset", "nil")) /\ UNCHANGED generated
          ELSE IF ~value.ok
          THEN FailEarly(c, Err("ErrInvalidAmount", "nil")) /\ UNCHANGED generated
          ELSE IF ~n.ok
          THEN FailEarly(c, Err("NonceError", "nil")) /\ UNCHANGED generated
          ELSE /\ generated' = n.nonce
               /\ locals' = [locals EXCEPT ![c] = l]
               /\ auth' = [auth EXCEPT ![c] = a]
               /\ ret' = [ret EXCEPT ![c] = Returned(ZeroPayload, NoErr)]
               /\ IF IsPinned(r.Network, asset.info.Address)
                  THEN /\ pc' = [pc EXCEPT ![c] = "pinnedSign"]
                       /\ chainQueries' = [chainQueries EXCEPT ![c] = 0]
                       /\ signerCalls' = [signerCalls EXCEPT ![c] =
                            <<SignerCall("SignDigest", Digest(a, PinnedDomainSeparator))>>]
                  ELSE EnterSignAuthorization(c, a, l, <<>>, 0)
    /\ UNCHANGED ethClient

\* scheme.go:111-122: the signer returns on the pinned path. A failure is not
\* returned: the call goes on to signAuthorization.
PinnedSignReturns(c, ok) ==
    /\ pc[c] = "pinnedSign"
    /\ signerResults' = [signerResults EXCEPT ![c] = Append(signerResults[c], ok)]
    /\ IF ok
       THEN /\ pc' = [pc EXCEPT ![c] = "done"]
            /\ ret' = [ret EXCEPT ![c] =
                  Returned(PayloadOf(SignatureOf(signerCalls[c][Len(signerCalls[c])]),
                                     auth[c]), NoErr)]
            /\ UNCHANGED <<signerCalls, chainQueries>>
       ELSE /\ EnterSignAuthorization(c, auth[c], locals[c], signerCalls[c], chainQueries[c])
            /\ UNCHANGED ret
    /\ UNCHANGED <<ethClient, generated, req, locals, auth, chainAnswer, ctx>>

\* scheme.go:156-165 with :221-233: CallContract returns.
ChainQueryReturns(c, outcome) ==
    /\ pc[c] = "chainQuery"
    /\ chainAnswer' = [chainAnswer EXCEPT ![c] = outcome]
    /\ chainQueries' = [chainQueries EXCEPT ![c] =
          IF QueryAgain(outcome, chainQueries[c]) THEN chainQueries[c] + 1
          ELSE chainQueries[c]]
    /\ IF QueryAgain(outcome, chainQueries[c])
       THEN UNCHANGED <<pc, signerCalls>>
       ELSE IF SignAuthorizationAfterQuery(outcome) = "digestSign"
       THEN /\ pc' = [pc EXCEPT ![c] = "digestSign"]
            /\ signerCalls' = [signerCalls EXCEPT ![c] = Append(signerCalls[c],
                  SignerCall("SignDigest",
                             Digest(auth[c], QueryDomainSeparator(outcome).sep)))]
       ELSE /\ pc' = [pc EXCEPT ![c] = "typedSign"]
            /\ signerCalls' = [signerCalls EXCEPT ![c] = Append(signerCalls[c],
                  SignerCall("SignTypedData",
                      TypedData(auth[c], locals[c].chainID, locals[c].assetAddress,
                                locals[c].tokenName, locals[c].tokenVersion)))]
    /\ UNCHANGED <<ethClient, generated, req, locals, auth, signerResults, ret, ctx>>

\* A failed signing that returns the error together with the unsigned payload.
SignReturnsPartial(c, ok) ==
    /\ pc[c] \in {"digestSign", "typedSign"}
    /\ pc' = [pc EXCEPT ![c] = "done"]
    /\ signerResults' = [signerResults EXCEPT ![c] = Append(signerResults[c], ok)]
    /\ ret' = [ret EXCEPT ![c] =
          IF ok
          THEN Returned(PayloadOf(SignatureOf(signerCalls[c][Len(signerCalls[c])]),
                                  auth[c]), NoErr)
          ELSE Returned(PayloadOf(NoSignature, auth[c]),
                        Err("ErrFailedToSignAuthorization", "signer error"))]
    /\ UNCHANGED <<ethClient, generated, req, locals, auth, signerCalls, chainQueries,
                   chainAnswer, ctx>>

\* scheme.go:126-141: the signer returns inside signAuthorization.
SignReturns(c, ok) ==
    /\ pc[c] \in {"digestSign", "typedSign"}
    /\ pc' = [pc EXCEPT ![c] = "done"]
    /\ signerResults' = [signerResults EXCEPT ![c] = Append(signerResults[c], ok)]
    /\ ret' = [ret EXCEPT ![c] =
          IF ok
          THEN Returned(PayloadOf(SignatureOf(signerCalls[c][Len(signerCalls[c])]),
                                  auth[c]), NoErr)
          ELSE Returned(ZeroPayload, Err("ErrFailedToSignAuthorization", "signer error"))]
    /\ UNCHANGED <<ethClient, generated, req, locals, auth, signerCalls, chainQueries,
                   chainAnswer, ctx>>

\* The caller cancels the context of its call while the call waits for a chain
\* read or for the signer. The code passes ctx on to CallContract and to the
\* signer (scheme.go:221, :206, :281) and never reads it itself.
CancelContext(c) ==
    /\ pc[c] \in InFlight
    /\ ~ctx[c].cancelled
    /\ ctx' = [ctx EXCEPT ![c] = CancelledContext(chainQueries[c] + Len(signerCalls[c]))]
    /\ UNCHANGED <<ethClient, generated, pc, req, locals, auth, signerCalls, signerResults,
                   chainQueries, chainAnswer, ret>>

\* The caller takes the returned value; the call's locals are gone.
CallReturns(c) ==
    /\ pc[c] = "done"
    /\ pc' = [pc EXCEPT ![c] = "idle"]
    /\ req' = [req EXCEPT ![c] = NoRequirements]
    /\ locals' = [locals EXCEPT ![c] = NoLocals]
    /\ auth' = [auth EXCEPT ![c] = NoAuth]
    /\ signerCalls' = [signerCalls EXCEPT ![c] = <<>>]
    /\ signerResults' = [signerResults EXCEPT ![c] = <<>>]
    /\ chainQueries' = [chainQueries EXCEPT ![c] = 0]
    /\ chainAnswer' = [chainAnswer EXCEPT ![c] = NoAnswer]
    /\ ret' = [ret EXCEPT ![c] = Returned(ZeroPayload, NoErr)]
    /\ ctx' = [ctx EXCEPT ![c] = LiveContext]
    /\ UNCHANGED <<ethClient, generated>>

SchemeInit ==
    /\ ethClient = "nil"
    /\ generated = 0
    /\ pc = [c \in Callers |-> "idle"]
    /\ req = [c \in Callers |-> NoRequirements]
    /\ locals = [c \in Callers |-> NoLocals]
    /\ auth = [c \in Callers |-> NoAuth]
    /\ signerCalls = [c \in Callers |-> <<>>]
    /\ signerResults = [c \in Callers |-> <<>>]
    /\ chainQueries = [c \in Callers |-> 0]
    /\ chainAnswer = [c \in Callers |-> NoAnswer]
    /\ ret = [c \in Callers |-> Returned(ZeroPayload, NoErr)]
    /\ ctx = [c \in Callers |-> LiveContext]

----------------------------------------------------------------------------
(* HTTPFacilitatorClient: go/http/facilitator_client.go *)

\* "/api/v1/dex", character by character.
gateWeb3SigningPath == <<"/", "a", "p", "i", "/", "v", "1", "/", "d", "e", "x">>

\* The logical target URI of each operation (facilitator_client.go:74-76).
TargetURI(op) ==
    CASE op = "verify" -> "/v1/x402/verify"
      [] op = "settle" -> "/v1/x402/settle"
      [] OTHER -> "/v1/x402/supported"

\* The action tag of each operation (facilitator_client.go:234, :311, :392).
ActionOf(op) ==
    CASE op = "verify" -> "x402.verify"
      [] op = "settle" -> "x402.settle"
      [] OTHER -> "x402.supported"

Ops == {"verify", "settle", "supported"}

\* The value of a JSON member: none, a string, or an integer hi * 2^27 + lo
\* kept as two 27-bit limbs.
Limb == 2^27

NoValue == [kind |-> "none", str |-> "", hi |-> 0, lo |-> 0]

JString(x) == [kind |-> "string", str |-> x, hi |-> 0, lo |-> 0]

JNumber(hi, lo) == [kind |-> "number", str |-> "", hi |-> hi, lo |-> lo]

\* 2^53 + 1, the smallest integer a float64 cannot hold.
BigNumber == JNumber(2^26, 1)

\* json.Unmarshal into interface{} stores a JSON number as a float64: an
\* integer below 2^53 is kept, one of [2^53, 2^54) is rounded to the nearest
\* even integer, ties to the even mantissa. Other values are kept as they are.
Float64(v) ==
    IF v.kind # "number" \/ v.hi < 2^26 \/ v.lo % 2 = 0 THEN v
    ELSE IF ((v.lo - 1) \div 2) % 2 = 0 THEN JNumber(v.hi, v.lo - 1)
    ELSE IF v.lo + 1 = Limb THEN JNumber(v.hi + 1, 0)
    ELSE JNumber(v.hi, v.lo + 1)

\* The byte strings handed to Verify and Settle, by what they parse to: no
\* JSON at all, a JSON array, the JSON null, or a JSON object with its
\* x402Version member (0 when it has none) and the value of a member "x-ext"
\* the SDK does not know.
Doc(json, version, ext) == [json |-> json, version |-> version, ext |-> ext]

PayloadDocs ==
    {Doc("invalid", 0, NoValue), Doc("array", 0, NoValue), Doc("null", 0, NoValue),
     Doc("object", 0, NoValue),
     Doc("object", 1, NoValue), Doc("object", 2, NoValue), Doc("object", 2, JString("v")),
     Doc("object", 2, JNumber(0, 1)), Doc("object", 2, BigNumber)}

RequirementsDocs ==
    {Doc("invalid", 0, NoValue), Doc("array", 0, NoValue), Doc("null", 0, NoValue),
     Doc("object", 0, NoValue),
     Doc("object", 0, JString("v")), Doc("object", 0, BigNumber)}

NoDoc == Doc("", 0, NoValue)

\* types.DetectVersion: the x402Version of a JSON object, an error when the
\* bytes are no JSON object or hold no known version.
DetectVersion(doc) ==
    IF doc.json = "object" /\ doc.version \in {1, 2}
    THEN [ok |-> TRUE, version |-> doc.version]
    ELSE [ok |-> FALSE, version |-> 0]

\* The nil map, which json.Marshal writes as null.
NilMap == Doc("null", 0, NoValue)

\* json.Unmarshal into a map[string]interface{}: a JSON object decodes, its
\* numbers becoming float64 values; the JSON null is no error and leaves the
\* map nil; anything else is an error.
UnmarshalMap(doc) ==
    IF doc.json = "object"
    THEN [ok |-> TRUE, map |-> [doc EXCEPT !.ext = Float64(doc.ext)]]
    ELSE IF doc.json = "null"
    THEN [ok |-> TRUE, map |-> NilMap]
    ELSE [ok |-> FALSE, map |-> NoDoc]

\* The requestBody map of a request: {action, params}.
RequestBody(op, version, payloadMap, requirementsMap) ==
    IF op = "supported"
    THEN [action |-> ActionOf(op), x402Version |-> 0,
          paymentPayload |-> NoDoc, paymentRequirements |-> NoDoc]
    ELSE [action |-> ActionOf(op), x402Version |-> version,
          paymentPayload |-> payloadMap, paymentRequirements |-> requirementsMap]

NoBody == [action |-> "", x402Version |-> 0, paymentPayload |-> NoDoc,
           paymentRequirements |-> NoDoc]

\* json.Marshal of a value held in a map: a string in quotes, a float64 that
\* holds an integer as that integer (written limb by limb).
MarshalValue(v) ==
    IF v.kind = "string" THEN <<"\"", v.str, "\"">>
    ELSE NatString(v.hi) \o <<"'">> \o NatString(v.lo)

\* json.Marshal of a decoded object: its members in the order of their keys.
MarshalMap(m) ==
    IF m = NilMap THEN <<"null">>
    ELSE <<"{">>
         \o (IF m.ext.kind # "none" THEN <<"\"x-ext\":">> \o MarshalValue(m.ext) ELSE <<>>)
         \o (IF m.ext.kind # "none" /\ m.version # 0 THEN <<",">> ELSE <<>>)
         \o (IF m.version # 0 THEN <<"\"x402Version\":">> \o NatString(m.version)
             ELSE <<>>)
         \o <<"}">>

\* json.Marshal(requestBody): the bytes of the body, as a sequence of pieces
\* of text; a map is written in the order of its keys.
Marshal(requestBody) ==
    <<"{\"action\":\"", requestBody.action, "\",\"params\":{">>
    \o (IF requestBody.action = "x402.supported" THEN <<>>
        ELSE <<"\"paymentPayload\":">> \o MarshalMap(requestBody.paymentPayload)
             \o <<",\"paymentRequirements\":">> \o MarshalMap(requestBody.paymentRequirements)
             \o <<",\"x402Version\":">> \o NatString(requestBody.x402Version))
    \o <<"}}">>

HeaderNames == {"Content-Type", "X-Api-Key", "X-Timestamp", "X-Signature",
                "X-Passphrase", "X-Forwarded-For", "X-Request-Id", "x-target-uri",
                "Authorization"}

NotSet == [set |-> FALSE, value |-> <<>>]

Value(v) == [set |-> TRUE, value |-> <<v>>]

NoHeaders == [h \in HeaderNames |-> NotSet]

\* The environment of the process: the Gate Web3 credentials, set or not.
Environments ==
    {[APIKey |-> "", APISecret |-> "", Passphrase |-> "", RealIP |-> ""],
     [APIKey |-> "ak", APISecret |-> "sk", Passphrase |-> "", RealIP |-> ""],
     [APIKey |-> "ak", APISecret |-> "sk", Passphrase |-> "pass", RealIP |-> "10.0.0.1"]}

\* loadGateWeb3Credentials (facilitator_client.go:95-118).
LoadGateWeb3Credentials(env) ==
    IF env.APIKey = "" \/ env.APISecret = ""
    THEN [ok |-> FALSE, APIKey |-> "", APISecret |-> "", Passphrase |-> "", RealIP |-> ""]
    ELSE [ok |-> TRUE, APIKey |-> env.APIKey, APISecret |-> env.APISecret,
          Passphrase |-> env.Passphrase,
          RealIP |-> IF env.RealIP = "" THEN "127.0.0.1" ELSE env.RealIP]

\* Base64(HMAC_SHA256(secret, prehash)), HMAC being ideal.
HmacBase64(secret, prehash) == [hmacSha256 |-> [key |-> secret, msg |-> prehash]]

\* A prehash that leaves the request body out.
PrehashWithoutBody(timestamp, signingPath, body) == NatString(timestamp) \o signingPath

\* A prehash that leaves the signing path out.
PrehashWithoutPath(timestamp, signingPath, body) == NatString(timestamp) \o body

\* fmt.Sprintf("%d%s%s", timestamp, gateWeb3SigningPath, string(body))
Prehash(timestamp, signingPath, body) == NatString(timestamp) \o signingPath \o body

\* strings.TrimPrefix(targetURI, "/") for the three target URIs.
TrimLeadingSlash(uri) ==
    CASE uri = "/v1/x402/verify" -> "v1/x402/verify"
      [] uri = "/v1/x402/settle" -> "v1/x402/settle"
      [] uri = "/v1/x402/supported" -> "v1/x402/supported"
      [] OTHER -> uri

\* applyGateWeb3Signature (facilitator_client.go:124-154): the headers after
\* the default signing of body at time timestamp with request id requestID.
ApplyGateWeb3Signature(headers, env, body, targetURI, timestamp, requestID) ==
    LET creds == LoadGateWeb3Credentials(env)
        prehash == Prehash(timestamp, gateWeb3SigningPath, body)
    IN IF ~creds.ok THEN headers
       ELSE [h \in HeaderNames |->
               CASE h = "X-Api-Key" -> Value(creds.APIKey)
                 [] h = "X-Timestamp" -> Value(NatString(timestamp))
                 [] h = "X-Signature" -> Value(HmacBase64(creds.APISecret, prehash))
                 [] h = "X-Passphrase" ->
                      IF creds.Passphrase # "" THEN Value(creds.Passphrase) ELSE headers[h]
                 [] h = "X-Forwarded-For" ->
                      IF creds.RealIP # "" THEN Value(creds.RealIP) ELSE headers[h]
                 [] h = "X-Request-Id" -> Value(requestID)
                 [] h = "x-target-uri" -> Value(TrimLeadingSlash(targetURI))
                 [] OTHER -> headers[h]]

\* The AuthProvider of the client: none, one whose GetAuthHeaders fails, one
\* that supplies an Authorization header per operation, and one that also
\* supplies its own X-Timestamp.
AuthProviders == {"nil", "failing", "bearer", "timestamping"}

\* authProvider.GetAuthHeaders: [ok, Verify, Settle, Supported], each a set of
\* <<header, value>> pairs.
GetAuthHeaders(provider) ==
    CASE provider = "failing" ->
            [ok |-> FALSE, verify |-> {}, settle |-> {}, supported |-> {}]
      [] provider = "bearer" ->
            [ok |-> TRUE,
             verify |-> {<<"Authorization", "Bearer verify">>},
             settle |-> {<<"Authorization", "Bearer settle">>},
             supported |-> {<<"Authorization", "Bearer supported">>}]
      [] OTHER ->
            [ok |-> TRUE,
             verify |-> {<<"Authorization", "Bearer verify">>, <<"X-Timestamp", <<"0">>>>},
             settle |-> {<<"Authorization", "Bearer settle">>, <<"X-Timestamp", <<"0">>>>},
             supported |-> {<<"Authorization", "Bearer supported">>, <<"X-Timestamp", <<"0">>>>}]

\* for k, v := range authHeaders.<Op> { req.Header.Set(k, v) }
SetAll(headers, pairs) ==
    [h \in HeaderNames |->
        IF \E p \in pairs : p[1] = h
        THEN Value((CHOOSE p \in pairs : p[1] = h)[2])
        ELSE headers[h]]

\* Every operation taking the header set of Verify.
AuthHeadersOfVerify(op, authHeaders) == authHeaders.verify

\* The header set of the operation (facilitator_client.go:259, :337, :418).
AuthHeadersFor(op, authHeaders) ==
    CASE op = "verify" -> authHeaders.verify
      [] op = "settle" -> authHeaders.settle
      [] OTHER -> authHeaders.supported

----------------------------------------------------------------------------
(* Responses of the facilitator *)

StatusOK == 200

Statuses == {StatusOK, 500}

\* The data member of the envelope: absent, of a JSON type that does not fit
\* the response struct, or an object with the members the structs read.
DataObject(flag, invalidReason, errorReason, payer) ==
    [shape |-> "object", flag |-> flag, invalidReason |-> invalidReason,
     errorReason |-> errorReason, payer |-> payer,
     transaction |-> IF flag THEN "0xtx" ELSE "", network |-> "gatelayer_testnet"]

NoData == [shape |-> "absent", flag |-> FALSE, invalidReason |-> "",
           errorReason |-> "", payer |-> "", transaction |-> "", network |-> ""]

WrongTypeData == [shape |-> "wrongType", flag |-> FALSE, invalidReason |-> "",
                  errorReason |-> "", payer |-> "", transaction |-> "", network |-> ""]

DataValues ==
    {NoData, WrongTypeData}
    \cup {DataObject(f, ir, er, py) :
            f \in BOOLEAN,
            ir \in {"", "insufficient_funds"},
            er \in {"", "transaction_failed"},
            py \in {"", "0xPayer"}}

\* A response body: no JSON, the JSON null, or an envelope {code, msg, data}.
Envelope(code, msg, data) == [json |-> "object", code |-> code, msg |-> msg, data |-> data]

InvalidBody == [json |-> "invalid", code |-> 0, msg |-> "", data |-> NoData]

NullBody == [json |-> "null", code |-> 0, msg |-> "", data |-> NoData]

\* The envelope codes the model offers: success and one business failure.
ResponseCodes == {0, 40001}

ResponseBodies ==
    {InvalidBody, NullBody}
    \cup {Envelope(c, m, d) : c \in ResponseCodes, m \in {"", "rejected"}, d \in DataValues}

\* What httpClient.Do and io.ReadAll can do with a request: fail before any
\* byte left (sent = FALSE), fail after the request was written, or deliver a
\* response whose body may fail to read.
TransportError(sent, cause) ==
    [kind |-> "error", sent |-> sent, cause |-> cause, status |-> 0,
     readOk |-> FALSE, body |-> InvalidBody]

Response(status, readOk, body) ==
    [kind |-> "response", sent |-> TRUE, cause |-> "", status |-> status,
     readOk |-> readOk, body |-> body]

DoOutcomes ==
    {TransportError(FALSE, c) : c \in {"connection refused", "context canceled"}}
    \cup {TransportError(TRUE, c) : c \in {"connection reset", "context canceled"}}
    \cup {Response(st, FALSE, InvalidBody) : st \in Statuses}
    \cup {Response(st, TRUE, b) : st \in Statuses, b \in ResponseBodies}

NoOutcome == [kind |-> "", sent |-> FALSE, cause |-> "", status |-> 0,
              readOk |-> FALSE, body |-> InvalidBody]

\* json.Unmarshal of the body into facilitatorAPIResponse[T]: null leaves the
\* zero value, an object fills code, msg and data, anything else is an error.
UnmarshalEnvelope(body) ==
    CASE body.json = "null" -> [ok |-> TRUE, Code |-> 0, Msg |-> "", Data |-> NoData]
      [] body.json = "object" /\ body.data.shape # "wrongType" ->
            [ok |-> TRUE, Code |-> body.code, Msg |-> body.msg, Data |-> body.data]
      [] OTHER -> [ok |-> FALSE, Code |-> 0, Msg |-> "", Data |-> NoData]

\* The response structs, each with the members it reads from data.
VerifyResponse(d) ==
    [IsValid |-> d.flag, Reason |-> d.invalidReason, Payer |-> d.payer,
     Transaction |-> "", Network |-> ""]

SettleResponse(d) ==
    [IsValid |-> d.flag, Reason |-> d.errorReason, Payer |-> d.payer,
     Transaction |-> d.transaction, Network |-> d.network]

SupportedResponse(d) ==
    [IsValid |-> FALSE, Reason |-> "", Payer |-> "", Transaction |-> "",
     Network |-> d.network]

NoResult == [IsValid |-> FALSE, Reason |-> "", Payer |-> "", Transaction |-> "",
             Network |-> ""]

\* Errors: fmt.Errorf values (type "error", with the message's fixed part and
\* the error wrapped by %w) and the typed *x402.VerifyError / *x402.SettleError.
NoFacErr == [type |-> "nil", msg |-> "", wraps |-> "", reason |-> "", payer |-> "",
             network |-> "", transaction |-> ""]

Errorf(msg, wraps) == [type |-> "error", msg |-> msg, wraps |-> wraps, reason |-> "",
                       payer |-> "", network |-> "", transaction |-> ""]

NewVerifyError(reason, payer, network) ==
    [type |-> "VerifyError", msg |-> "facilitator returned", wraps |-> "",
     reason |-> reason, payer |-> payer, network |-> network, transaction |-> ""]

NewSettleError(reason, payer, network, transaction) ==
    [type |-> "SettleError", msg |-> "facilitator returned", wraps |-> "",
     reason |-> reason, payer |-> payer, network |-> network,
     transaction |-> transaction]

FacReturn(result, err) == [result |-> result, err |-> err]

\* The failure test with && in place of ||.
ResponseFailedBoth(status, code) == status # StatusOK /\ code # 0

\* facilitator_client.go:360 / :441 / :282: the test for a failed response.
ResponseFailed(status, code) == status # StatusOK \/ code # 0

\* verifyHTTP after httpClient.Do returned (facilitator_client.go:343-372).
VerifyAfterDo(o) ==
    IF o.kind = "error" THEN FacReturn(NoResult, Errorf("verify request failed", o.cause))
    ELSE IF ~o.readOk
    THEN FacReturn(NoResult, Errorf("failed to read response body", "read error"))
    ELSE LET apiResp == UnmarshalEnvelope(o.body)
             data == VerifyResponse(apiResp.Data)
         IN IF ~apiResp.ok
            THEN FacReturn(NoResult, Errorf("facilitator verify failed (status): body", ""))
            ELSE IF ResponseFailed(o.status, apiResp.Code)
            THEN IF data.Reason # ""
                 THEN FacReturn(NoResult, NewVerifyError(data.Reason, data.Payer, ""))
                 ELSE FacReturn(NoResult,
                                Errorf("facilitator verify failed (http, code, msg)", ""))
            ELSE FacReturn(data, NoFacErr)

\* settleHTTP after httpClient.Do returned (facilitator_client.go:424-454).
SettleAfterDo(o) ==
    IF o.kind = "error" THEN FacReturn(NoResult, Errorf("settle request failed", o.cause))
    ELSE IF ~o.readOk
    THEN FacReturn(NoResult, Errorf("failed to read response body", "read error"))
    ELSE LET apiResp == UnmarshalEnvelope(o.body)
             data == SettleResponse(apiResp.Data)
         IN IF ~apiResp.ok
            THEN FacReturn(NoResult, Errorf("facilitator settle failed (status): body", ""))
            ELSE IF ResponseFailed(o.status, apiResp.Code)
            THEN IF data.Reason # ""
                 THEN FacReturn(NoResult,
                                NewSettleError(data.Reason, data.Payer, data.Network,
                                               data.Transaction))
                 ELSE FacReturn(NoResult,
                                Errorf("facilitator settle failed (http, code, msg)", ""))
            ELSE FacReturn(data, NoFacErr)

\* GetSupported after httpClient.Do returned (facilitator_client.go:265-286).
SupportedAfterDo(o) ==
    IF o.kind = "error" THEN FacReturn(NoResult, Errorf("supported request failed", o.cause))
    ELSE IF ~o.readOk
    THEN FacReturn(NoResult, Errorf("failed to read supported response body", "read error"))
    ELSE LET apiResp == UnmarshalEnvelope(o.body)
         IN IF ~apiResp.ok
            THEN FacReturn(NoResult,
                           Errorf("failed to decode supported response (status): body", ""))
            ELSE IF ResponseFailed(o.status, apiResp.Code)
            THEN FacReturn(NoResult,
                           Errorf("facilitator supported failed (http, code, msg)", ""))
            ELSE FacReturn(SupportedResponse(apiResp.Data), NoFacErr)

AfterDo(op, o) ==
    CASE op = "verify" -> VerifyAfterDo(o)
      [] op = "settle" -> SettleAfterDo(o)
      [] OTHER -> SupportedAfterDo(o)

----------------------------------------------------------------------------
(* Operations of HTTPFacilitatorClient *)

DefaultFacilitatorURL == "https://openapi-test.gateweb3.cc/api/v1/x402"

\* FacilitatorConfig.URL: not set, or the URL of another facilitator.
ConfigURLs == {"", "https://facilitator.example/x402"}

\* A request URL chosen by operation instead of the client's one URL.
RequestURLByOperation(clientURL, op) == TargetURI(op)

\* http.NewRequestWithContext(ctx, http.MethodPost, c.url, ...): the URL of
\* the request is the client's, whatever the operation.
RequestURL(clientURL, op) == clientURL

NoInput == [payload |-> NoDoc, requirements |-> NoDoc,
            env |-> [APIKey |-> "", APISecret |-> "", Passphrase |-> "", RealIP |-> ""],
            timestamp |-> 0, requestID |-> 0]

NoWire == [method |-> "", url |-> "", headers |-> NoHeaders, requestBody |-> NoBody,
           body |-> <<>>]

FacInputs ==
    [payload : PayloadDocs, requirements : RequirementsDocs, env : Environments,
     timestamp : Times, requestID : Nonces]

SupportedInputs ==
    [payload : {NoDoc}, requirements : {NoDoc}, env : Environments,
     timestamp : Times, requestID : Nonces]

\* NewHTTPFacilitatorClient (facilitator_client.go:170-202).
NewHTTPFacilitatorClient(configURL, provider) ==
    /\ fpc = "unbuilt"
    /\ fpc' = "idle"
    /\ url' = IF configURL = "" THEN DefaultFacilitatorURL ELSE configURL
    /\ authProvider' = provider
    /\ UNCHANGED <<fop, fin, fwire, fsends, fdo, fret, peer>>

\* A return of Verify, Settle or GetSupported before any request is made.
FacFailEarly(err) ==
    [pc |-> "done", ret |-> FacReturn(NoResult, err), wire |-> NoWire, sends |-> 0]

\* A retry loop around httpClient.Do: a failed exchange is tried again.
ResendOnTransportError(op, o, sends) == o.kind = "error" /\ sends < 3

\* The code has no loop around httpClient.Do: whatever Do returned, the
\* request is not handed to it again (facilitator_client.go:265-268,
\* :343-346, :424-427).
Resend(op, o, sends) == FALSE

\* An error of GetAuthHeaders that is dropped: the request goes out with the
\* default headers.
ProviderFailedIgnored(provider, authHeaders) == FALSE

\* if c.authProvider != nil { authHeaders, err := ...; if err != nil { return }
\* (facilitator_client.go:254-258, :332-336, :413-417).
ProviderFailed(provider, authHeaders) == provider # "nil" /\ ~authHeaders.ok

\* Verify / Settle / GetSupported up to httpClient.Do
\* (facilitator_client.go:209-265, :293-343, :375-424), on a client with the
\* fields clientURL and provider: where the call then stands, the request it
\* built and what it returns if it returns here.
BeforeDo(clientURL, provider, op, in) ==
    LET detected == DetectVersion(in.payload)
        payloadMap == UnmarshalMap(in.payload)
        requirementsMap == UnmarshalMap(in.requirements)
        requestBody == RequestBody(op, detected.version, payloadMap.map,
                                   requirementsMap.map)
        body == Marshal(requestBody)
        signed == ApplyGateWeb3Signature(
                     [NoHeaders EXCEPT !["Content-Type"] = Value("application/json")],
                     in.env, body, TargetURI(op), in.timestamp, in.requestID)
        authHeaders == GetAuthHeaders(provider)
    IN IF op # "supported" /\ ~detected.ok
       THEN FacFailEarly(Errorf("failed to detect version", "detect error"))
       ELSE IF op # "supported" /\ ~payloadMap.ok
       THEN FacFailEarly(Errorf("failed to unmarshal payload", "json error"))
       ELSE IF op # "supported" /\ ~requirementsMap.ok
       THEN FacFailEarly(Errorf("failed to unmarshal requirements", "json error"))
       ELSE IF ProviderFailed(provider, authHeaders)
       THEN FacFailEarly(Errorf("failed to get auth headers", "provider error"))
       ELSE [pc |-> "sending",
             ret |-> FacReturn(NoResult, NoFacErr),
             wire |-> [method |-> "POST", url |-> RequestURL(clientURL, op),
                       headers |-> IF provider = "nil" THEN signed
                                   ELSE SetAll(signed, AuthHeadersFor(op, authHeaders)),
                       requestBody |-> requestBody,
                       body |-> body],
             sends |-> 1]

\* A goroutine calls Verify, Settle or GetSupported.
FacilitatorCall(op, in) ==
    /\ fpc = "idle"
    /\ fop' = op
    /\ fin' = in
    /\ fdo' = NoOutcome
    /\ LET b == BeforeDo(url, authProvider, op, in)
       IN /\ fpc' = b.pc
          /\ fret' = b.ret
          /\ fwire' = b.wire
          /\ fsends' = b.sends
    /\ UNCHANGED <<url, authProvider, peer>>

\* An operation that drops the client's AuthProvider when it returns.
DoReturnsDroppingProvider(o) ==
    /\ fpc = "sending"
    /\ fdo' = o
    /\ fpc' = "done"
    /\ fret' = AfterDo(fop, o)
    /\ authProvider' = "nil"
    /\ UNCHANGED <<url, fop, fin, fwire, fsends, peer>>

\* httpClient.Do (and the read of the response body) ends; the rest of the
\* operation runs and it returns.
DoReturns(o) ==
    /\ fpc = "sending"
    /\ fdo' = o
    /\ IF Resend(fop, o, fsends)
       THEN /\ fpc' = "sending"
            /\ fsends' = fsends + 1
            /\ UNCHANGED fret
       ELSE /\ fpc' = "done"
            /\ fret' = AfterDo(fop, o)
            /\ UNCHANGED fsends
    /\ UNCHANGED <<url, authProvider, fop, fin, fwire, peer>>

\* The caller takes the returned value.
FacCallReturns ==
    /\ fpc = "done"
    /\ fpc' = "idle"
    /\ fop' = ""
    /\ fin' = NoInput
    /\ fwire' = NoWire
    /\ fsends' = 0
    /\ fdo' = NoOutcome
    /\ fret' = FacReturn(NoResult, NoFacErr)
    /\ UNCHANGED <<url, authProvider, peer>>

\* The call of a second goroutine on the same client, while the first
\* goroutine's call may be anywhere: the same operations on a record of its own.
NoPeer == [pc |-> "idle", op |-> "", in |-> NoInput, wire |-> NoWire, sends |-> 0,
           do |-> NoOutcome, ret |-> FacReturn(NoResult, NoFacErr)]

PeerCall(op, in) ==
    /\ fpc # "unbuilt"
    /\ peer.pc = "idle"
    /\ LET b == BeforeDo(url, authProvider, op, in)
       IN peer' = [pc |-> b.pc, op |-> op, in |-> in, wire |-> b.wire, sends |-> b.sends,
                   do |-> NoOutcome, ret |-> b.ret]
    /\ UNCHANGED <<url, authProvider, fpc, fop, fin, fwire, fsends, fdo, fret>>

PeerDoReturns(o) ==
    /\ peer.pc = "sending"
    /\ peer' = IF Resend(peer.op, o, peer.sends)
               THEN [peer EXCEPT !.do = o, !.sends = @ + 1]
               ELSE [peer EXCEPT !.do = o, !.pc = "done", !.ret = AfterDo(peer.op, o)]
    /\ UNCHANGED <<url, authProvider, fpc, fop, fin, fwire, fsends, fdo, fret>>

PeerCallReturns ==
    /\ peer.pc = "done"
    /\ peer' = NoPeer
    /\ UNCHANGED <<url, authProvider, fpc, fop, fin, fwire, fsends, fdo, fret>>

FacInit ==
    /\ url = ""
    /\ authProvider = "nil"
    /\ fpc = "unbuilt"
    /\ fop = ""
    /\ fin = NoInput
    /\ fwire = NoWire
    /\ fsends = 0
    /\ fdo = NoOutcome
    /\ fret = FacReturn(NoResult, NoFacErr)
    /\ peer = NoPeer

----------------------------------------------------------------------------
(* Payment retry orchestrator: the wrapped HTTP client of go/http, which is   *)
(* not part of the sources at hand; modelled from its specification and from  *)
(* go/USAGE.md, "How It Works" and "Payment Asset Selection"                   *)

\* The offers a resource server may list in a 402 response.
OfferChoices ==
    {[scheme |-> "exact", network |-> "gatelayer_testnet", amount |-> <<"1">>],
     [scheme |-> "exact", network |-> "gatelayer_testnet", amount |-> <<"2">>],
     [scheme |-> "exact", network |-> "eip155:8453", amount |-> <<"4">>],
     [scheme |-> "exact", network |-> "solana:devnet", amount |-> <<"5">>],
     [scheme |-> "upto", network |-> "gatelayer_testnet", amount |-> <<"6">>]}

OfferLists == UNION {[1..n -> OfferChoices] : n \in 0..MaxOffers}

\* The networks the caller may register the exact EVM scheme for.
RegistrableNetworks == {"gatelayer_testnet", "eip155:8453"}

\* evm.SchemeExact, returned by ExactEvmScheme.Scheme() (scheme.go:46-48).
SchemeExact == "exact"

\* An offer matches when its (scheme, network) is that of a registered scheme.
Matches(offer, registered) ==
    offer.scheme = SchemeExact /\ offer.network \in registered

\* Selection that takes the last matching entry.
LastMatch(offered, registered) ==
    LET matching == {i \in 1..Len(offered) : Matches(offered[i], registered)}
    IN IF matching = {} THEN 0 ELSE CHOOSE i \in matching : \A j \in matching : j <= i

\* Selection that falls back to the first entry when none matches.
FirstMatchOrFirst(offered, registered) ==
    LET matching == {i \in 1..Len(offered) : Matches(offered[i], registered)}
    IN IF matching # {} THEN CHOOSE i \in matching : \A j \in matching : i <= j
       ELSE IF Len(offered) > 0 THEN 1 ELSE 0

\* The first requirements entry, in server order, that matches; 0 for none.
FirstMatch(offered, registered) ==
    LET matching == {i \in 1..Len(offered) : Matches(offered[i], registered)}
    IN IF matching = {} THEN 0 ELSE CHOOSE i \in matching : \A j \in matching : i <= j

\* The PaymentRequirements handed to the scheme client for an offer.
RequirementsOf(offer) ==
    [Network |-> offer.network, Asset |-> "", Amount |-> offer.amount,
     PayTo |-> "0x209693Bc6afc0C5328bA36FaF03C514EF312287C",
     ExtraName |-> [present |-> FALSE, isString |-> FALSE, str |-> ""],
     ExtraVersion |-> [present |-> FALSE, isString |-> FALSE, str |-> ""]]

StatusPaymentRequired == 402

\* What the resource server does with a request: a transport failure, or a
\* response with a status.
ServerStatuses == {200, 302, 404, StatusPaymentRequired}

ServerAnswers ==
    {[kind |-> "error", status |-> 0]}
    \cup {[kind |-> "response", status |-> st] : st \in ServerStatuses}

NoOutcomeYet == [status |-> 0, failure |-> ""]

\* A request to the resource server: with the payment header or without.
PlainRequest == [payment |-> ZeroPayload]

PaidRequest(payload) == [payment |-> payload]

\* A 402 on the resent request starts another payment round, three times over.
OnResponseLooping(attempt, answer) ==
    IF answer.kind = "error"
    THEN [state |-> "Failed", failure |-> "TransportError"]
    ELSE IF answer.status # StatusPaymentRequired
    THEN [state |-> "Done", failure |-> ""]
    ELSE IF attempt < 4
    THEN [state |-> "PaymentRequired", failure |-> ""]
    ELSE [state |-> "Failed", failure |-> "PaymentVerificationFailed"]

\* A 402 on the resent request asks for payment once more.
OnResponseRepaying(attempt, answer) ==
    IF answer.kind = "error"
    THEN [state |-> "Failed", failure |-> "TransportError"]
    ELSE IF answer.status # StatusPaymentRequired
    THEN [state |-> "Done", failure |-> ""]
    ELSE IF attempt < 3
    THEN [state |-> "PaymentRequired", failure |-> ""]
    ELSE [state |-> "Failed", failure |-> "PaymentVerificationFailed"]

\* A 402 on the resent request is handed to the caller as the response.
OnResponsePassing402(attempt, answer) ==
    IF answer.kind = "error"
    THEN [state |-> "Failed", failure |-> "TransportError"]
    ELSE IF answer.status = StatusPaymentRequired /\ attempt = 1
    THEN [state |-> "PaymentRequired", failure |-> ""]
    ELSE [state |-> "Done", failure |-> ""]

\* The state machine on a response to the attempt-th request: anything but a
\* 402 ends the request; a 402 on the original request asks for payment, a 402
\* on the resent one is the terminal failure PaymentVerificationFailed.
OnResponse(attempt, answer) ==
    IF answer.kind = "error"
    THEN [state |-> "Failed", failure |-> "TransportError"]
    ELSE IF answer.status # StatusPaymentRequired
    THEN [state |-> "Done", failure |-> ""]
    ELSE IF attempt = 1
    THEN [state |-> "PaymentRequired", failure |-> ""]
    ELSE [state |-> "Failed", failure |-> "PaymentVerificationFailed"]

\* x402Client.Register(network, scheme): the caller's setup, before the request.
Register(network) ==
    /\ ostate = "Initial"
    /\ registry' = registry \cup {network}
    /\ UNCHANGED <<ostate, offers, selected, requests, builds, signings, ending>>

\* Initial --(send)--> AwaitingResponse.
SendOriginal ==
    /\ ostate = "Initial"
    /\ ostate' = "AwaitingResponse"
    /\ requests' = <<PlainRequest>>
    /\ UNCHANGED <<registry, offers, selected, builds, signings, ending>>

\* The resource server answers the request in flight, the original or the
\* resent one; a 402 carries the offers.
ServerResponds(answer, offered) ==
    /\ ostate \in {"AwaitingResponse", "Retrying"}
    /\ LET next == OnResponse(Len(requests), answer)
       IN /\ ostate' = next.state
          /\ ending' = [status |-> answer.status, failure |-> next.failure]
          /\ offers' = IF next.state = "PaymentRequired" THEN offered ELSE offers
          /\ selected' = IF next.state = "PaymentRequired" THEN 0 ELSE selected
    /\ UNCHANGED <<registry, requests, builds, signings>>

\* PaymentRequired: select the scheme; without a match the request fails with
\* NoSchemeRegistered, with one the scheme client is asked for the payload.
SelectScheme(n, now) ==
    /\ ostate = "PaymentRequired"
    /\ pc[1] = "idle"
    /\ selected = 0
    /\ LET i == FirstMatch(offers, registry)
       IN IF i = 0
          THEN /\ ostate' = "Failed"
               /\ ending' = [ending EXCEPT !.failure = "NoSchemeRegistered"]
               /\ UNCHANGED <<selected, builds>>
               /\ UNCHANGED schemeVars
          ELSE /\ selected' = i
               /\ builds' = builds + 1
               /\ CreatePaymentPayload(1, RequirementsOf(offers[i]), n, now)
               /\ UNCHANGED <<ostate, ending>>
    /\ UNCHANGED <<registry, offers, requests, signings>>

\* The scheme client returns: with a payload the request is resent once with
\* the payment header (PaymentRequired --> Retrying), with an error the
\* request fails with that error.
PayloadReturns ==
    /\ ostate = "PaymentRequired"
    /\ pc[1] = "done"
    /\ CallReturns(1)
    /\ signings' = signings + Len(signerCalls[1])
    /\ IF ret[1].err = NoErr
       THEN /\ ostate' = "Retrying"
            /\ requests' = Append(requests, PaidRequest(ret[1].payload))
            /\ UNCHANGED ending
       ELSE /\ ostate' = "Failed"
            /\ ending' = [ending EXCEPT !.failure = ret[1].err.kind]
            /\ UNCHANGED requests
    /\ UNCHANGED <<registry, offers, selected, builds>>

OrchInit ==
    /\ registry = {}
    /\ ostate = "Initial"
    /\ offers = <<>>
    /\ selected = 0
    /\ requests = <<>>
    /\ builds = 0
    /\ signings = 0
    /\ ending = NoOutcomeYet

----------------------------------------------------------------------------
(* The struct encoding of signWithDomainSeparator, byte by byte: scheme.go *)

WordLen == 32

\* The digits of a decimal string as numbers.
DecimalDigits(s) == [i \in 1..Len(s) |-> DigitVal(s[i])]

\* A sequence of digits without its leading zeros.
RECURSIVE StripZeros(_)
StripZeros(ds) ==
    IF Len(ds) = 0 \/ ds[1] # 0 THEN ds ELSE StripZeros(SubSeq(ds, 2, Len(ds)))

\* The decimal number ds divided by 256, digit by digit from position i on:
\* quotient digits so far quo (no leading zeros), remainder so far rem.
RECURSIVE DivideBy256(_, _, _, _)
DivideBy256(ds, i, rem, quo) ==
    IF i > Len(ds) THEN [quo |-> quo, rem |-> rem]
    ELSE LET cur == 10 * rem + ds[i]
         IN IF Len(quo) = 0 /\ cur < 256
            THEN DivideBy256(ds, i + 1, cur, quo)
            ELSE DivideBy256(ds, i + 1, cur % 256, Append(quo, cur \div 256))

\* The big-endian bytes of the number with decimal digits ds (no leading
\* zeros), none for zero.
RECURSIVE DigitsBytes(_)
DigitsBytes(ds) ==
    IF Len(ds) = 0 THEN <<>>
    ELSE LET d == DivideBy256(ds, 1, 0, <<>>)
         IN DigitsBytes(d.quo) \o <<d.rem>>

\* value, _ := new(big.Int).SetString(s, 10); value.Bytes(): the bytes of the
\* absolute value of the decimal string s, of whatever size (scheme.go:247-249).
ParsedBytes(s) ==
    IF Len(s) > 0 /\ s[1] \in {"+", "-"}
    THEN DigitsBytes(StripZeros(DecimalDigits(SubSeq(s, 2, Len(s)))))
    ELSE DigitsBytes(StripZeros(DecimalDigits(s)))

\* common.LeftPadBytes: zeros in front up to n bytes; a slice of n bytes or
\* more is returned as it is.
LeftPadBytes(slice, n) ==
    IF n <= Len(slice) THEN slice ELSE Repeat(0, n - Len(slice)) \o slice

\* common.HexToAddress(s).Bytes(): the 20 bytes of the address.
AddressBytes(s) ==
    CASE HexToAddress(s) = "70997970c51812dc3a010c7d01b50e0d17dc79c8" ->
            HexDecodeString(
                <<"7", "0", "9", "9", "7", "9", "7", "0", "c", "5", "1", "8", "1", "2", "d", "c", "3", "a", "0", "1",
                  "0", "c", "7", "d", "0", "1", "b", "5", "0", "e", "0", "d", "1", "7", "d", "c", "7", "9", "c", "8">>)
      [] HexToAddress(s) = "209693bc6afc0c5328ba36faf03c514ef312287c" ->
            HexDecodeString(
                <<"2", "0", "9", "6", "9", "3", "b", "c", "6", "a", "f", "c", "0", "c", "5", "3", "2", "8", "b", "a",
                  "3", "6", "f", "a", "f", "0", "3", "c", "5", "1", "4", "e", "f", "3", "1", "2", "2", "8", "7", "c">>)
      [] OTHER -> Repeat(0, 20)

\* crypto.Keccak256 of the type string: the EIP-3009 type hash (scheme.go:243-244).
TypeHashBytes ==
    HexDecodeString(
        <<"7", "c", "7", "c", "6", "c", "d", "b", "6", "7", "a", "1", "8", "7", "4", "3",
          "f", "4", "9", "e", "c", "6", "f", "a", "9", "b", "3", "5", "f", "5", "0", "d",
          "5", "2", "e", "d", "0", "5", "c", "b", "e", "d", "4", "c", "c", "5", "9", "2",
          "e", "1", "3", "b", "4", "4", "5", "0", "1", "c", "1", "a", "2", "2", "6", "7">>)

\* evm.HexToBytes(authorization.Nonce): the 32 bytes evm.CreateNonce drew; the
\* k-th nonce of the source is the number k.
NonceBytes(nonce) == Repeat(0, WordLen - 1) \o <<nonce>>

\* scheme.go:257-264: the seven appends to encoded.
EncodeStruct(a) ==
    TypeHashBytes
    \o LeftPadBytes(AddressBytes(a.From), WordLen)
    \o LeftPadBytes(AddressBytes(a.To), WordLen)
    \o LeftPadBytes(ParsedBytes(a.Value), WordLen)
    \o LeftPadBytes(ParsedBytes(a.ValidAfter), WordLen)
    \o LeftPadBytes(ParsedBytes(a.ValidBefore), WordLen)
    \o NonceBytes(a.Nonce)

\* 2^256 - 1 and 2^256 in decimal.
MaxUint256String ==
    <<"1", "1", "5", "7", "9", "2", "0", "8", "9", "2", "3", "7", "3", "1", "6", "1", "9", "5", "4", "2",
      "3", "5", "7", "0", "9", "8", "5", "0", "0", "8", "6", "8", "7", "9", "0", "7", "8", "5", "3", "2",
      "6", "9", "9", "8", "4", "6", "6", "5", "6", "4", "0", "5", "6", "4", "0", "3", "9", "4", "5", "7",
      "5", "8", "4", "0", "0", "7", "9", "1", "3", "1", "2", "9", "6", "3", "9", "9", "3", "5">>

TwoTo256String ==
    <<"1", "1", "5", "7", "9", "2", "0", "8", "9", "2", "3", "7", "3", "1", "6", "1", "9", "5", "4", "2",
      "3", "5", "7", "0", "9", "8", "5", "0", "0", "8", "6", "8", "7", "9", "0", "7", "8", "5", "3", "2",
      "6", "9", "9", "8", "4", "6", "6", "5", "6", "4", "0", "5", "6", "4", "0", "3", "9", "4", "5", "7",
      "5", "8", "4", "0", "0", "7", "9", "1", "3", "1", "2", "9", "6", "3", "9", "9", "3", "6">>

\* Values of authorization.Value: value.String() of an amount that passed
\* SetString (scheme.go:70, :100), which puts no bound on its size.
ValueStrings ==
    {<<"0">>, <<"1">>, <<"2">>, <<"2", "5", "5">>, <<"2", "5", "6">>,
     <<"6", "5", "5", "3", "6">>, <<"4", "2", "9", "4", "9", "6", "7", "2", "9", "6">>,
     <<"-", "1">>, MaxUint256String, TwoTo256String}

\* The payees of the authorizations: one address in its two spellings.
PayToChoices == {"0x209693Bc6afc0C5328bA36FaF03C514EF312287C",
                 "0x209693bc6afc0c5328ba36faf03c514ef312287c"}

\* The authorizations handed to signWithDomainSeparator.
SignedAuthorizations ==
    {[Authorization(SignerAddress, to, 0, CreateValidityWindow(now), n)
         EXCEPT !.Value = v] :
        to \in PayToChoices, v \in ValueStrings, now \in Times, n \in Nonces}

NoEncoding == [pc |-> "idle", authorization |-> NoAuth, encoded |-> <<>>,
               structHash |-> Keccak256(<<>>)]

\* signWithDomainSeparator up to structHash (scheme.go:244-266).
HashStruct(a) ==
    /\ enc.pc = "idle"
    /\ enc' = [pc |-> "hashed", authorization |-> a, encoded |-> EncodeStruct(a),
               structHash |-> Keccak256(EncodeStruct(a))]

\* The digest is signed and the call returns; its locals are gone.
HashStructReturns ==
    /\ enc.pc = "hashed"
    /\ enc' = NoEncoding

EncInit == enc = NoEncoding

Init == SchemeInit /\ FacInit /\ OrchInit /\ EncInit

\* The one caller of the sequential specification.
Sequential == {1}

Next ==
    \/ \E dialOk \in BOOLEAN : SetRPCURL(dialOk) /\ UNCHANGED <<facVars, orchVars, encVars>>
    \/ \E c \in Sequential :
          /\ pc[c] = "idle"
          /\ \E r \in Requirements, n \in NonceOutcomes, now \in Times :
                CreatePaymentPayload(c, r, n, now) /\ UNCHANGED <<facVars, orchVars, encVars>>
    \/ \E c \in Sequential, ok \in BOOLEAN : PinnedSignReturns(c, ok) /\ UNCHANGED <<facVars, orchVars, encVars>>
    \/ \E c \in Sequential, outcome \in ChainOutcomes :
          ChainQueryReturns(c, outcome) /\ UNCHANGED <<facVars, orchVars, encVars>>
    \/ \E c \in Sequential, ok \in BOOLEAN : SignReturns(c, ok) /\ UNCHANGED <<facVars, orchVars, encVars>>
    \/ \E c \in Sequential : CancelContext(c) /\ UNCHANGED <<facVars, orchVars, encVars>>
    \/ \E c \in Sequential : CallReturns(c) /\ UNCHANGED <<facVars, orchVars, encVars>>

\* ExactEvmScheme: one scheme object and its calls, one after the other.
Spec == Init /\ [][Next]_vars

\* The requirements two concurrent callers present: the default asset of the
\* two configured networks, for the same amount and payee.
ConcRequirements ==
    {r \in Requirements :
        /\ r.Network \in ConfiguredNetworks
        /\ r.Asset = ""
        /\ r.Amount = <<"1">>
        /\ ~r.ExtraName.present
        /\ ~r.ExtraVersion.present}

ConcNext ==
    \/ \E dialOk \in BOOLEAN : SetRPCURL(dialOk) /\ UNCHANGED <<facVars, orchVars, encVars>>
    \/ \E c \in Callers :
          /\ pc[c] = "idle"
          /\ \E r \in ConcRequirements, n \in NonceOutcomes, now \in Times :
                CreatePaymentPayload(c, r, n, now) /\ UNCHANGED <<facVars, orchVars, encVars>>
    \/ \E c \in Callers, ok \in BOOLEAN : PinnedSignReturns(c, ok) /\ UNCHANGED <<facVars, orchVars, encVars>>
    \/ \E c \in Callers, outcome \in ChainOutcomes :
          ChainQueryReturns(c, outcome) /\ UNCHANGED <<facVars, orchVars, encVars>>
    \/ \E c \in Callers, ok \in BOOLEAN : SignReturns(c, ok) /\ UNCHANGED <<facVars, orchVars, encVars>>
    \/ \E c \in Callers : CallReturns(c) /\ UNCHANGED <<facVars, orchVars, encVars>>

\* ExactEvmScheme: one scheme object called by two goroutines at once.
ConcSpec == Init /\ [][ConcNext]_vars

FacNext ==
    \/ \E configURL \in ConfigURLs, provider \in AuthProviders :
          NewHTTPFacilitatorClient(configURL, provider) /\ UNCHANGED <<schemeVars, orchVars, encVars>>
    \/ /\ fpc = "idle"
       /\ \E op \in {"verify", "settle"}, in \in FacInputs :
             FacilitatorCall(op, in) /\ UNCHANGED <<schemeVars, orchVars, encVars>>
    \/ /\ fpc = "idle"
       /\ \E in \in SupportedInputs : FacilitatorCall("supported", in) /\ UNCHANGED <<schemeVars, orchVars, encVars>>
    \/ /\ fpc = "sending"
       /\ \E o \in DoOutcomes : DoReturns(o) /\ UNCHANGED <<schemeVars, orchVars, encVars>>
    \/ FacCallReturns /\ UNCHANGED <<schemeVars, orchVars, encVars>>

\* HTTPFacilitatorClient: one client object and its calls, one after the other.
FacSpec == Init /\ [][FacNext]_vars

\* Two goroutines share one scheme object and one facilitator client. Each
\* goroutine is in one call at a time: goroutine 1 makes the scheme calls of
\* caller 1 and the client's first call, goroutine 2 those of caller 2 and the
\* client's second call.
InFacilitatorCall(c) == IF c = 1 THEN fpc \in {"sending", "done"} ELSE peer.pc # "idle"

SharedTimes == {MaxTime}

\* The inputs and the exchanges of the facilitator calls of the two goroutines.
SharedInputs(op) ==
    [payload : IF op = "supported" THEN {NoDoc}
               ELSE {Doc("invalid", 0, NoValue), Doc("object", 2, JString("v"))},
     requirements : IF op = "supported" THEN {NoDoc} ELSE {Doc("object", 0, NoValue)},
     env : {e \in Environments : e.Passphrase = ""},
     timestamp : SharedTimes,
     requestID : {MaxNonce}]

SharedProviders == {"nil", "bearer"}

SharedOutcomes ==
    {TransportError(TRUE, "connection reset"),
     Response(StatusOK, TRUE, Envelope(0, "", DataObject(TRUE, "", "", "0xPayer"))),
     Response(StatusOK, TRUE,
              Envelope(40001, "rejected",
                       DataObject(FALSE, "insufficient_funds", "transaction_failed",
                                  "0xPayer")))}

SharedNext ==
    \/ \E dialOk \in BOOLEAN : SetRPCURL(dialOk) /\ UNCHANGED <<facVars, orchVars, encVars>>
    \/ \E configURL \in ConfigURLs, provider \in SharedProviders :
          NewHTTPFacilitatorClient(configURL, provider) /\ UNCHANGED <<schemeVars, orchVars, encVars>>
    \/ \E c \in Callers :
          /\ pc[c] = "idle"
          /\ ~InFacilitatorCall(c)
          /\ \E r \in ConcRequirements, n \in NonceOutcomes, now \in SharedTimes :
                CreatePaymentPayload(c, r, n, now) /\ UNCHANGED <<facVars, orchVars, encVars>>
    \/ \E c \in Callers, ok \in BOOLEAN : PinnedSignReturns(c, ok) /\ UNCHANGED <<facVars, orchVars, encVars>>
    \/ \E c \in Callers, outcome \in ChainOutcomes :
          ChainQueryReturns(c, outcome) /\ UNCHANGED <<facVars, orchVars, encVars>>
    \/ \E c \in Callers, ok \in BOOLEAN : SignReturns(c, ok) /\ UNCHANGED <<facVars, orchVars, encVars>>
    \/ \E c \in Callers : CallReturns(c) /\ UNCHANGED <<facVars, orchVars, encVars>>
    \/ /\ fpc = "idle"
       /\ pc[1] = "idle"
       /\ \E op \in Ops : \E in \in SharedInputs(op) :
             FacilitatorCall(op, in) /\ UNCHANGED <<schemeVars, orchVars, encVars>>
    \/ /\ fpc = "sending"
       /\ \E o \in SharedOutcomes : DoReturns(o) /\ UNCHANGED <<schemeVars, orchVars, encVars>>
    \/ FacCallReturns /\ UNCHANGED <<schemeVars, orchVars, encVars>>
    \/ /\ peer.pc = "idle"
       /\ pc[2] = "idle"
       /\ \E op \in Ops : \E in \in SharedInputs(op) :
             PeerCall(op, in) /\ UNCHANGED <<schemeVars, orchVars, encVars>>
    \/ /\ peer.pc = "sending"
       /\ \E o \in SharedOutcomes : PeerDoReturns(o) /\ UNCHANGED <<schemeVars, orchVars, encVars>>
    \/ PeerCallReturns /\ UNCHANGED <<schemeVars, orchVars, encVars>>

\* One ExactEvmScheme and one HTTPFacilitatorClient used by two goroutines.
SharedSpec == Init /\ [][SharedNext]_vars

OrchNext ==
    \/ \E network \in RegistrableNetworks :
          Register(network) /\ UNCHANGED <<schemeVars, facVars, encVars>>
    \/ SendOriginal /\ UNCHANGED <<schemeVars, facVars, encVars>>
    \/ /\ ostate \in {"AwaitingResponse", "Retrying"}
       /\ \E answer \in ServerAnswers :
             /\ OnResponse(Len(requests), answer).state # "PaymentRequired"
             /\ ServerResponds(answer, offers)
             /\ UNCHANGED <<schemeVars, facVars, encVars>>
    \/ /\ ostate \in {"AwaitingResponse", "Retrying"}
       /\ \E answer \in ServerAnswers, offered \in OfferLists :
             /\ OnResponse(Len(requests), answer).state = "PaymentRequired"
             /\ ServerResponds(answer, offered)
             /\ UNCHANGED <<schemeVars, facVars, encVars>>
    \/ /\ ostate = "PaymentRequired"
       /\ \E n \in NonceOutcomes, now \in SharedTimes :
             SelectScheme(n, now) /\ UNCHANGED <<facVars, encVars>>
    \/ /\ ostate = "PaymentRequired"
       /\ \E ok \in BOOLEAN : PinnedSignReturns(1, ok) /\ UNCHANGED <<facVars, orchVars, encVars>>
    \/ /\ ostate = "PaymentRequired"
       /\ \E ok \in BOOLEAN : SignReturns(1, ok) /\ UNCHANGED <<facVars, orchVars, encVars>>
    \/ PayloadReturns /\ UNCHANGED <<facVars, encVars>>

EncNext ==
    \/ \E a \in SignedAuthorizations :
          HashStruct(a) /\ UNCHANGED <<schemeVars, facVars, orchVars>>
    \/ HashStructReturns /\ UNCHANGED <<schemeVars, facVars, orchVars>>

\* signWithDomainSeparator's struct encoding, one authorization after another.
EncSpec == Init /\ [][EncNext]_vars

\* One outbound request through the wrapped HTTP client.
OrchSpec == Init /\ [][OrchNext]_vars

\* The same, where a step that can be taken is taken: the orchestrator runs on
\* when the server, the scheme client or the signer has returned to it, and
\* each of them does return.
FairOrchSpec == OrchSpec /\ WF_vars(OrchNext)

----------------------------------------------------------------------------
(* Properties of CreatePaymentPayload *)

\* The call of caller c holds a payload for its caller.
HasPayload(c) == ret[c].payload.X402Version # 0

\* The call got past the network, asset, amount and nonce steps.
Building(c) == pc[c] # "idle" /\ auth[c].From # ""

\* The pair that the documentation pins: gatelayer_testnet with its USDC.
PinnedPair(c) ==
    /\ req[c].Network = "gatelayer_testnet"
    /\ locals[c].assetAddress = GateLayerUSDC

\* A decimal integer string that denotes a value >= 0: digits, with an
\* optional "+", or "-" before zeros only.
IsNonNegativeDecimal(s) ==
    LET signed == Len(s) > 0 /\ s[1] \in {"+", "-"}
        body == IF signed THEN SubSeq(s, 2, Len(s)) ELSE s
    IN /\ Len(body) > 0
       /\ \A i \in 1..Len(body) : body[i] \in DigitSet
       /\ (signed /\ s[1] = "-") => \A i \in 1..Len(body) : body[i] = "0"

\* C1 (as claimed): once network and asset are resolved (and the nonce source
\* works), an amount that is not a non-negative decimal integer string ends the
\* call with InvalidAmount, no payload, and no invocation of the signer.
C1_MalformedAmountRejected ==
    \A c \in Callers :
        (/\ pc[c] # "idle"
         /\ GetEvmChainId(req[c].Network).ok
         /\ GetAssetInfo(req[c].Network, req[c].Asset).ok
         /\ ret[c].err.kind # "NonceError"
         /\ ~IsNonNegativeDecimal(req[c].Amount))
        => (/\ pc[c] = "done"
            /\ ret[c].err.kind = "ErrInvalidAmount"
            /\ ~HasPayload(c)
            /\ signerCalls[c] = <<>>)

\* C2 (as claimed): when an invocation of the signer failed, the call returns
\* FailedToSignAuthorization and no payload.
C2_SignerFailurePropagates ==
    \A c \in Callers :
        (pc[c] = "done" /\ \E i \in 1..Len(signerResults[c]) : ~signerResults[c][i])
        => (ret[c].err.kind = "ErrFailedToSignAuthorization" /\ ~HasPayload(c))

\* C3 (as claimed): for the pinned pair every invocation of the signer is over a
\* digest built with the pinned separator, and the chain is never queried.
C3_PinnedNoChainQuery ==
    \A c \in Callers :
        (Building(c) /\ PinnedPair(c))
        => (/\ chainQueries[c] = 0
            /\ \A i \in 1..Len(signerCalls[c]) :
                  /\ signerCalls[c][i].method = "SignDigest"
                  /\ signerCalls[c][i].arg = Digest(auth[c], PinnedDomainSeparator))

\* The chain answered the call's query with at least 32 bytes.
ChainGaveSeparator(c) ==
    /\ pc[c] \in {"digestSign", "typedSign", "done"}
    /\ chainQueries[c] > 0
    /\ ~chainAnswer[c].err
    /\ Len(chainAnswer[c].result) >= SeparatorLen

\* C4: for a pair that is not pinned, when the chain answered with at least 32
\* bytes, the only invocation of the signer is SignDigest over the digest built
\* from the first 32 bytes of the answer; SignTypedData is not used.
C4_ChainSeparatorUsed ==
    \A c \in Callers :
        (Building(c) /\ ~PinnedPair(c) /\ ChainGaveSeparator(c))
        => signerCalls[c] =
             <<SignerCall("SignDigest",
                          Digest(auth[c],
                                 [i \in 1..SeparatorLen |-> chainAnswer[c].result[i]]))>>

\* C4's case: the chain answered with more than 32 bytes and the call returned
\* a payload signed over the digest.
C4_Witness ==
    \E c \in Callers :
        /\ pc[c] = "done"
        /\ ~PinnedPair(c)
        /\ ChainGaveSeparator(c)
        /\ Len(chainAnswer[c].result) > SeparatorLen
        /\ HasPayload(c)
        /\ ret[c].payload.Signature.method = "SignDigest"

\* No separator came from the chain: no client, or a failed or short answer.
NoChainSeparator(c) ==
    /\ pc[c] \in {"typedSign", "digestSign", "done"}
    /\ \/ ethClient = "nil"
       \/ /\ chainQueries[c] > 0
          /\ (chainAnswer[c].err \/ Len(chainAnswer[c].result) < SeparatorLen)

\* C5: for a pair that is not pinned, without a separator from the chain the
\* only invocation of the signer is SignTypedData over the domain {name,
\* version, chainId, verifyingContract}, and the call fails only if that
\* invocation fails.
C5_TypedDataFallback ==
    \A c \in Callers :
        (Building(c) /\ ~PinnedPair(c) /\ NoChainSeparator(c))
        => (/\ Len(signerCalls[c]) = 1
            /\ signerCalls[c][1].method = "SignTypedData"
            /\ signerCalls[c][1].arg.domain =
                  [Name |-> locals[c].tokenName,
                   Version |-> locals[c].tokenVersion,
                   ChainID |-> locals[c].chainID,
                   VerifyingContract |-> locals[c].assetAddress]
            /\ pc[c] = "done" => (HasPayload(c) <=> signerResults[c] = <<TRUE>>)
            /\ pc[c] = "done" => (ret[c].err = NoErr <=> signerResults[c] = <<TRUE>>))

\* C5's case: a client is set, its query failed, and the call still returned a
\* payload signed through SignTypedData.
C5_Witness ==
    \E c \in Callers :
        /\ pc[c] = "done"
        /\ ~PinnedPair(c)
        /\ ethClient # "nil"
        /\ chainQueries[c] = 1
        /\ chainAnswer[c].err
        /\ HasPayload(c)
        /\ ret[c].payload.Signature.method = "SignTypedData"

\* Name or version is neither a string of requirements.Extra nor a default of
\* the asset.
MetadataUnresolvable(c) ==
    \/ /\ ~(req[c].ExtraName.present /\ req[c].ExtraName.isString)
       /\ GetAssetInfo(req[c].Network, req[c].Asset).info.Name = ""
    \/ /\ ~(req[c].ExtraVersion.present /\ req[c].ExtraVersion.isString)
       /\ GetAssetInfo(req[c].Network, req[c].Asset).info.Version = ""

\* C6 (as claimed): when the call reaches the local derivation with name or
\* version unresolvable, it ends with AssetMetadataMissing, no payload and no
\* invocation of the signer.
C6_MissingMetadataRejected ==
    \A c \in Callers :
        (/\ Building(c)
         /\ MetadataUnresolvable(c)
         /\ ~PinnedPair(c)
         /\ NoChainSeparator(c))
        => (/\ pc[c] = "done"
            /\ ret[c].err.kind = "AssetMetadataMissing"
            /\ ~HasPayload(c)
            /\ signerCalls[c] = <<>>)

\* C19: every call puts a nonce of its own into its authorization: two calls
\* of the scheme, one after the other or at the same time, have different
\* nonces, hand different values to the signer, and return payloads with
\* different nonces.
C19_FreshNoncePerCall ==
    \A c1 \in Callers, c2 \in Callers :
        (c1 # c2 /\ Building(c1) /\ Building(c2))
        => (/\ auth[c1].Nonce \in 1..generated
            /\ auth[c1].Nonce # auth[c2].Nonce
            /\ \A i \in 1..Len(signerCalls[c1]), j \in 1..Len(signerCalls[c2]) :
                  signerCalls[c1][i].method = signerCalls[c2][j].method
                  => signerCalls[c1][i].arg # signerCalls[c2][j].arg
            /\ (HasPayload(c1) /\ HasPayload(c2))
                  => ret[c1].payload.Authorization.Nonce
                       # ret[c2].payload.Authorization.Nonce)

\* C19's case: two calls with the same requirements at the same time have both
\* returned a payload.
C19_Witness ==
    /\ pc[1] = "done"
    /\ pc[2] = "done"
    /\ req[1] = req[2]
    /\ auth[1].ValidAfter = auth[2].ValidAfter
    /\ HasPayload(1)
    /\ HasPayload(2)
    /\ ret[1].payload.Authorization.Nonce # ret[2].payload.Authorization.Nonce

\* hash(0x19 || 0x01 || domainSeparator || hash(typeHash || pad32(from) ||
\* pad32(to) || pad32(value) || pad32(validAfter) || pad32(validBefore) ||
\* nonce)) for an authorization a whose numbers are not negative.
ClaimedDigest(a, domainSeparator) ==
    Keccak256([prefix |-> <<25, 1>>,
               domainSeparator |-> domainSeparator,
               structHash |->
                   Keccak256(<<Word("hash", Keccak256(TransferWithAuthorizationType)),
                               Word("address", HexToAddress(a.From)),
                               Word("address", HexToAddress(a.To)),
                               Word("uint256", DigitsValue(a.Value)),
                               Word("uint256", DigitsValue(a.ValidAfter)),
                               Word("uint256", DigitsValue(a.ValidBefore)),
                               Word("bytes32", a.Nonce)>>)])

\* The separators a call can have resolved: the pinned one, and the first 32
\* bytes of what the chain answered.
ResolvedSeparators(c) ==
    {PinnedDomainSeparator}
    \cup (IF Len(chainAnswer[c].result) >= SeparatorLen
          THEN {SubSeq(chainAnswer[c].result, 1, SeparatorLen)}
          ELSE {})

----------------------------------------------------------------------------
(* Properties of HTTPFacilitatorClient *)

\* The exchange failed in transport after the request had been written.
PostSendTransportFailure(o) ==
    \/ o.kind = "error" /\ o.sent
    \/ o.kind = "response" /\ ~o.readOk

\* C7 (as claimed): the error Settle returns for a transport failure after the
\* request was sent is a condition of its own: no exchange of another kind (a
\* request that never left, a response that was read) makes Settle return it.
C7_AmbiguousSettleDistinct ==
    (fpc = "done" /\ fop = "settle" /\ PostSendTransportFailure(fdo))
    => \A o \in DoOutcomes :
          ~PostSendTransportFailure(o) => SettleAfterDo(o).err # fret.err

\* C8: a call hands at most one request to httpClient.Do, whatever the outcome.
C8_AtMostOneRequest == fsends <= 1

\* C8's case: a Settle whose request was sent and failed in transport has
\* returned, after one request.
C8_Witness ==
    /\ fpc = "done"
    /\ fop = "settle"
    /\ fdo.kind = "error"
    /\ fdo.sent
    /\ fsends = 1

\* The body decodes into the envelope, and the code it then holds.
BodyDecodable(b) == b.json = "null" \/ (b.json = "object" /\ b.data.shape # "wrongType")

BodyCode(b) == IF b.json = "object" THEN b.code ELSE 0

\* C9: an operation returns a nil error exactly when a response arrived with
\* status 200, a decodable envelope and code 0; otherwise it returns an error
\* and no result.
C9_SuccessIffOkResponse ==
    fpc = "done"
    => (/\ fret.err = NoFacErr
           <=> (/\ fdo.kind = "response"
                /\ fdo.readOk
                /\ fdo.status = StatusOK
                /\ BodyDecodable(fdo.body)
                /\ BodyCode(fdo.body) = 0)
        /\ fret.err # NoFacErr => fret.result = NoResult)

\* C9's case: HTTP 200 with a nonzero code came back and the call returned an
\* error without a result.
C9_Witness ==
    /\ fpc = "done"
    /\ fdo.kind = "response"
    /\ fdo.readOk
    /\ fdo.status = StatusOK
    /\ fdo.body.json = "object"
    /\ fdo.body.code # 0
    /\ fdo.body.data.shape = "object"
    /\ fdo.body.data.flag
    /\ fret.err # NoFacErr
    /\ fret.result = NoResult

\* C10 (as claimed): HTTP 200 with a nonzero code makes Verify return a
\* VerifyError and Settle a SettleError, whatever data holds.
C10_BusinessErrorTyped ==
    (/\ fpc = "done"
     /\ fop \in {"verify", "settle"}
     /\ fdo.kind = "response"
     /\ fdo.readOk
     /\ fdo.status = StatusOK
     /\ fdo.body.json = "object"
     /\ fdo.body.code # 0)
    => fret.err.type = (IF fop = "verify" THEN "VerifyError" ELSE "SettleError")

\* The call's request was handed to httpClient.Do.
Sent == fpc = "sending"

\* The data member of the response to the call, as the facilitator wrote it.
ReportedData == fdo.body.data

\* C11 (as claimed): a typed error returned by Verify or Settle carries the
\* reason, the payer and the network that the facilitator's response reports.
C11_TypedErrorCarriesDetails ==
    (fpc = "done" /\ fret.err.type \in {"VerifyError", "SettleError"})
    => (/\ fret.err.reason = (IF fop = "verify" THEN ReportedData.invalidReason
                              ELSE ReportedData.errorReason)
        /\ fret.err.payer = ReportedData.payer
        /\ fret.err.network = ReportedData.network)

\* The headers the facilitator requires on every request.
RequiredHeaders == {"X-Api-Key", "X-Timestamp", "X-Signature", "X-Request-Id"}

\* C12 (as claimed): every request handed to httpClient.Do carries X-Api-Key,
\* X-Timestamp, X-Signature and X-Request-Id.
C12_RequiredHeadersSent ==
    Sent => \A h \in RequiredHeaders : fwire.headers[h].set

\* The message the X-Signature of the request is the HMAC of.
SignedMessage == fwire.headers["X-Signature"].value[1].hmacSha256.msg

\* C13: when the SDK signed the request, the prehash is the timestamp, the
\* signing path and then exactly the bytes that are sent as the body.
C13_SignedBodyIsSentBody ==
    (Sent /\ fwire.headers["X-Signature"].set)
    => SignedMessage = NatString(fin.timestamp) \o gateWeb3SigningPath \o fwire.body

\* C13's case: a signed Verify request whose body holds an extension member
\* is on the wire.
C13_Witness ==
    /\ Sent
    /\ fop = "verify"
    /\ fin.payload.ext.kind = "string"
    /\ fwire.headers["X-Signature"].set
    /\ Len(fwire.body) > Len(gateWeb3SigningPath)
    /\ SubSeq(SignedMessage, Len(SignedMessage) - Len(fwire.body) + 1, Len(SignedMessage))
         = fwire.body

\* C14 (as claimed): with a custom AuthProvider whose headers hold no
\* X-Signature, the request carries an X-Signature computed by the SDK,
\* whether or not the credentials are in the environment.
C14_SignatureWithoutCredentials ==
    (/\ Sent
     /\ authProvider # "nil"
     /\ \A pair \in AuthHeadersFor(fop, GetAuthHeaders(authProvider)) :
            pair[1] # "X-Signature")
    => fwire.headers["X-Signature"].set

\* The headers of the request before the AuthProvider's are applied.
DefaultHeaders ==
    ApplyGateWeb3Signature([NoHeaders EXCEPT !["Content-Type"] = Value("application/json")],
                           fin.env, fwire.body, TargetURI(fop), fin.timestamp,
                           fin.requestID)

\* The Authorization value the providers of the model supply for the operation.
OwnBearer ==
    CASE fop = "verify" -> "Bearer verify"
      [] fop = "settle" -> "Bearer settle"
      [] OTHER -> "Bearer supported"

\* C15: the headers of the AuthProvider's set for this operation are on the
\* request with the provider's values, also where the default signing had set
\* the same header; every other header is as the default signing left it.
C15_ProviderHeadersOverride ==
    (Sent /\ authProvider # "nil")
    => (/\ fwire.headers["Authorization"] = Value(OwnBearer)
        /\ authProvider = "timestamping" => fwire.headers["X-Timestamp"] = Value(<<"0">>)
        /\ authProvider = "bearer"
              => fwire.headers["X-Timestamp"] = DefaultHeaders["X-Timestamp"]
        /\ \A h \in HeaderNames \ {"Authorization", "X-Timestamp"} :
              fwire.headers[h] = DefaultHeaders[h])

\* C15's case: a Settle request on which the provider's X-Timestamp replaced
\* the one of the default signing.
C15_Witness ==
    /\ Sent
    /\ fop = "settle"
    /\ authProvider = "timestamping"
    /\ DefaultHeaders["X-Timestamp"].set
    /\ DefaultHeaders["X-Timestamp"] # Value(<<"0">>)
    /\ fwire.headers["X-Timestamp"] = Value(<<"0">>)
    /\ fwire.headers["Authorization"] = Value("Bearer settle")
    /\ fwire.headers["X-Signature"].set

\* The action tag the protocol gives the operation.
OwnAction ==
    CASE fop = "verify" -> "x402.verify"
      [] fop = "settle" -> "x402.settle"
      [] OTHER -> "x402.supported"

\* C16: every request is a POST to the client's one URL, and the action member
\* of its body is the tag of the operation.
C16_OneEndpointActionTag ==
    Sent
    => (/\ fwire.method = "POST"
        /\ fwire.url = url
        /\ fwire.requestBody.action = OwnAction
        /\ fwire.body[2] = OwnAction)

\* C16's case: a Settle request of a client configured with its own URL.
C16_Witness ==
    /\ Sent
    /\ fop = "settle"
    /\ url # DefaultFacilitatorURL
    /\ fwire.url = url
    /\ fwire.requestBody.action = "x402.settle"

\* Other values of the three inputs of the signature.
OtherTimestamps == Times \cup {0, 10, 12}

OtherSigningPaths == {gateWeb3SigningPath, <<"/", "a", "p", "i", "/", "v", "2">>, <<>>}

OtherBodies ==
    {<<>>}
    \cup {Marshal(RequestBody(op, 2, Doc("object", 2, NoValue), Doc("object", 0, e))) :
            op \in Ops, e \in {NoValue, JString("v")}}

\* The signature of (timestamp, signingPath, body) under secret.
SignatureFor(secret, timestamp, signingPath, body) ==
    HmacBase64(secret, Prehash(timestamp, signingPath, body))

\* C17: the X-Signature the SDK computed is the signature of the request's
\* (timestamp, signing path, body) under the secret, and the signature of any
\* triple that differs from it in one of the three is another one.
C17_SignatureOfTriple ==
    (Sent /\ fwire.headers["X-Signature"].set)
    => LET secret == LoadGateWeb3Credentials(fin.env).APISecret
           sig == fwire.headers["X-Signature"].value[1]
       IN /\ sig = SignatureFor(secret, fin.timestamp, gateWeb3SigningPath, fwire.body)
          /\ \A t \in OtherTimestamps \ {fin.timestamp} :
                SignatureFor(secret, t, gateWeb3SigningPath, fwire.body) # sig
          /\ \A path \in OtherSigningPaths \ {gateWeb3SigningPath} :
                SignatureFor(secret, fin.timestamp, path, fwire.body) # sig
          /\ \A body \in OtherBodies \ {fwire.body} :
                SignatureFor(secret, fin.timestamp, gateWeb3SigningPath, body) # sig

\* C17's case: a signed GetSupported request is on the wire.
C17_Witness ==
    /\ Sent
    /\ fop = "supported"
    /\ fwire.headers["X-Signature"].set
    /\ fwire.headers["X-Signature"].value[1]
         = SignatureFor("sk", fin.timestamp, gateWeb3SigningPath, fwire.body)

\* C18 (as claimed): the members of the payload and of the requirements handed
\* to Verify or Settle are in the request with the values they came with.
C18_MembersRoundTrip ==
    (Sent /\ fop \in {"verify", "settle"})
    => (/\ fwire.requestBody.paymentPayload.version = fin.payload.version
        /\ fwire.requestBody.paymentPayload.ext = fin.payload.ext
        /\ fwire.requestBody.paymentRequirements.version = fin.requirements.version
        /\ fwire.requestBody.paymentRequirements.ext = fin.requirements.ext)

----------------------------------------------------------------------------
(* Properties of CreatePaymentPayload: validity window, order and number of *)
(* its external calls                                                       *)

\* The decimal string s read back as a number.
DecimalValue(s) == SetString(s).val

\* The validity window, one hour, in seconds.
OneHour == 60 * 60

\* C21: in every authorization built by CreatePaymentPayload, validAfter is the
\* time of the call, with nothing taken off, and validBefore is validAfter plus
\* one hour, so validAfter < validBefore.
C21_ValidityWindow ==
    \A c \in Callers :
        Building(c)
        => (/\ auth[c].ValidAfter = NatString(locals[c].now)
            /\ SetString(auth[c].ValidAfter).ok
            /\ SetString(auth[c].ValidBefore).ok
            /\ DecimalValue(auth[c].ValidBefore) = DecimalValue(auth[c].ValidAfter) + OneHour
            /\ DecimalValue(auth[c].ValidAfter) < DecimalValue(auth[c].ValidBefore))

\* A call made at the latest time returned a payload with its authorization.
C21_Witness ==
    \E c \in Callers :
        /\ pc[c] = "done"
        /\ HasPayload(c)
        /\ locals[c].now = MaxTime
        /\ ret[c].payload.Authorization.ValidAfter = NatString(MaxTime)

\* The external calls the call of caller c has started.
ExternalCalls(c) == chainQueries[c] + Len(signerCalls[c])

\* C22 (as claimed): once the context is cancelled while a chain read or a
\* signer call is in flight, the call starts no further chain read or signer
\* call, and it returns an error and no payload.
C22_CancellationAborts ==
    \A c \in Callers :
        ctx[c].cancelled
        => (/\ ExternalCalls(c) = ctx[c].started
            /\ pc[c] = "done" => (ret[c].err # NoErr /\ ~HasPayload(c)))

\* The requirements r are an input error: an unknown network, an asset that
\* cannot be resolved, or an amount that is not a non-negative decimal integer.
InputRejected(r) ==
    \/ ~GetEvmChainId(r.Network).ok
    \/ ~GetAssetInfo(r.Network, r.Asset).ok
    \/ ~IsNonNegativeDecimal(r.Amount)

InputErrorKinds == {"UnsupportedNetwork", "NoDefaultAsset", "ErrInvalidAmount"}

\* C24 (as claimed): a call whose network is unknown, whose asset cannot be
\* resolved or whose amount is malformed returns its error in the step that
\* starts it: no nonce is taken from the source, the chain is not queried and
\* the signer is not invoked.
C24_InputErrorsFailFast ==
    [][\A c \in Callers :
          (pc[c] = "idle" /\ pc'[c] # "idle" /\ InputRejected(req'[c]))
          => (/\ pc'[c] = "done"
              /\ ret'[c].err.kind \in InputErrorKinds
              /\ ret'[c].payload = ZeroPayload
              /\ generated' = generated
              /\ chainQueries'[c] = 0
              /\ signerCalls'[c] = <<>>)]_vars

\* C30 (as claimed): one CreatePaymentPayload call invokes the signing
\* capability at most once, on every path and whatever the invocation returns.
C30_SignerAtMostOnce ==
    \A c \in Callers : Len(signerCalls[c]) <= 1

----------------------------------------------------------------------------
(* Concurrent calls on one scheme object and one facilitator client *)

\* What the CreatePaymentPayload call of caller c returns when it runs alone:
\* computed from its requirements, the time and the nonce it drew, the
\* object's ethClient, and what the chain and the signer answered to it.
SchemeAlone(c) ==
    LET r == req[c]
        chain == GetEvmChainId(r.Network)
        asset == GetAssetInfo(r.Network, r.Asset)
        value == SetString(r.Amount)
        a == Authorization(SignerAddress, r.PayTo, value.val,
                           CreateValidityWindow(locals[c].now), auth[c].Nonce)
        separator == QueryDomainSeparator(chainAnswer[c])
        call == IF IsPinned(r.Network, asset.info.Address) /\ signerResults[c][1]
                THEN SignerCall("SignDigest", Digest(a, PinnedDomainSeparator))
                ELSE IF ethClient # "nil" /\ separator.ok
                THEN SignerCall("SignDigest", Digest(a, separator.sep))
                ELSE SignerCall("SignTypedData",
                         TypedData(a, chain.chainID, asset.info.Address,
                                   ResolveExtra(asset.info.Name, r.ExtraName),
                                   ResolveExtra(asset.info.Version, r.ExtraVersion)))
    IN IF ~chain.ok THEN Returned(ZeroPayload, Err("UnsupportedNetwork", "nil"))
       ELSE IF ~asset.ok THEN Returned(ZeroPayload, Err("NoDefaultAsset", "nil"))
       ELSE IF ~value.ok THEN Returned(ZeroPayload, Err("ErrInvalidAmount", "nil"))
       ELSE IF auth[c] = NoAuth THEN Returned(ZeroPayload, Err("NonceError", "nil"))
       ELSE IF signerResults[c][Len(signerResults[c])]
       THEN Returned(PayloadOf(SignatureOf(call), a), NoErr)
       ELSE Returned(ZeroPayload, Err("ErrFailedToSignAuthorization", "signer error"))

\* The first goroutine's call on the client, as a record like the second's.
MainCall == [pc |-> fpc, op |-> fop, in |-> fin, wire |-> fwire, sends |-> fsends,
             do |-> fdo, ret |-> fret]

\* What a facilitator call returns when it runs alone on the client.
FacilitatorAlone(call) ==
    LET b == BeforeDo(url, authProvider, call.op, call.in)
    IN IF b.pc = "done" THEN b.ret ELSE AfterDo(call.op, call.do)

ResultsAsAlone ==
    /\ \A c \in Callers : pc[c] = "done" => ret[c] = SchemeAlone(c)
    /\ \A call \in {MainCall, peer} :
          /\ call.pc \in {"sending", "done"}
                => call.wire = BeforeDo(url, authProvider, call.op, call.in).wire
          /\ call.pc = "done" => call.ret = FacilitatorAlone(call)

\* All that belongs to the calls of goroutine c.
GoroutineState(c) ==
    <<pc[c], req[c], locals[c], auth[c], signerCalls[c], signerResults[c],
      chainQueries[c], chainAnswer[c], ret[c], ctx[c],
      IF c = 1 THEN MainCall ELSE peer>>

\* A step of CreatePaymentPayload, Verify, Settle or GetSupported.
OperationStep ==
    \/ \E c \in Callers : pc'[c] # pc[c]
    \/ fpc # "unbuilt" /\ fpc' # fpc
    \/ peer' # peer

\* C23: a step of a request-handling operation leaves the fields of the scheme
\* object and of the client as they are and touches the call of one goroutine
\* only, and under every interleaving each call returns what it returns alone.
C23_NoSharedWrites ==
    /\ []ResultsAsAlone
    /\ [][OperationStep
            => (/\ ethClient' = ethClient
                /\ url' = url
                /\ authProvider' = authProvider
                /\ \A c, d \in Callers :
                      (c # d /\ GoroutineState(c)' # GoroutineState(c))
                      => GoroutineState(d)' = GoroutineState(d))]_vars

\* Two calls on the one client at once: the Verify of one goroutine came back
\* rejected while the Settle of the other is with httpClient.Do.
C23_Witness ==
    /\ fpc = "done"
    /\ fop = "verify"
    /\ fret.err.type = "VerifyError"
    /\ peer.pc = "sending"
    /\ peer.op = "settle"
    /\ peer.wire.url = fwire.url
    /\ authProvider = "bearer"

----------------------------------------------------------------------------
(* Properties of the payment retry orchestrator *)

Terminal == {"Done", "Failed"}

\* The request carries a payment header.
Paid(request) == request.payment.X402Version # 0

\* C25: one outbound request is sent to the resource server at most twice:
\* the original without payment and, after a 402 and one payload
\* construction, one resend that carries the payment header.
C25_AtMostTwoRequests ==
    /\ Len(requests) <= 2
    /\ Len(requests) >= 1 => ~Paid(requests[1])
    /\ Len(requests) = 2 => (Paid(requests[2]) /\ builds = 1 /\ selected # 0)

\* The resent request was answered with 200.
C25_Witness ==
    /\ ostate = "Done"
    /\ Len(requests) = 2
    /\ Paid(requests[2])
    /\ ending.status = 200

\* The resent request has been answered, and with 402.
SecondPaymentRequired ==
    /\ Len(requests) >= 2
    /\ ostate # "Retrying"
    /\ ending.status = StatusPaymentRequired

\* C26: a 402 on the resent request ends the request with
\* PaymentVerificationFailed; one payload was built, no scheme call is running,
\* two requests were sent, and from then on nothing more is built, signed or
\* sent.
C26_SecondPaymentRequiredIsTerminal ==
    /\ [](SecondPaymentRequired
           => (/\ ostate = "Failed"
               /\ ending.failure = "PaymentVerificationFailed"
               /\ builds = 1
               /\ pc[1] = "idle"
               /\ Len(requests) = 2))
    /\ [][SecondPaymentRequired
            => UNCHANGED <<ostate, requests, builds, signings, signerCalls, pc>>]_vars

C26_Witness ==
    /\ ostate = "Failed"
    /\ ending.failure = "PaymentVerificationFailed"
    /\ ending.status = StatusPaymentRequired
    /\ Len(requests) = 2
    /\ signings >= 1

\* No entry of the 402 response is for a registered (scheme, network).
NoOfferRegistered ==
    \A i \in 1..Len(offers) :
        offers[i].scheme # "exact" \/ offers[i].network \notin registry

\* C27: after a 402 none of whose entries is for a registered (scheme,
\* network), the request can only fail, with NoSchemeRegistered: no payload is
\* built, the signer is not invoked, and the one request sent stays the only one.
C27_NoSchemeRegistered ==
    (ending.status = StatusPaymentRequired /\ NoOfferRegistered)
    => (/\ ostate \in {"PaymentRequired", "Failed"}
        /\ ostate = "Failed" => ending.failure = "NoSchemeRegistered"
        /\ Len(requests) = 1
        /\ builds = 0
        /\ signings = 0
        /\ pc[1] = "idle"
        /\ signerCalls[1] = <<>>)

\* A caller with a registered scheme got offers for other networks only.
C27_Witness ==
    /\ ostate = "Failed"
    /\ ending.failure = "NoSchemeRegistered"
    /\ registry # {}
    /\ Len(offers) >= 2
    /\ NoOfferRegistered
    /\ Len(requests) = 1

\* Entry i of the 402 response is for a registered (scheme, network).
OfferRegistered(i) == offers[i].scheme = "exact" /\ offers[i].network \in registry

\* C28: the payload is built for the first entry, in server order, that is
\* for a registered (scheme, network): no entry before it is, the scheme
\* client is called with its requirements, and the payment sent is for its
\* amount. When some entry is registered, one is selected.
C28_FirstMatchingOffer ==
    /\ selected # 0
          => (/\ selected \in 1..Len(offers)
              /\ OfferRegistered(selected)
              /\ \A j \in 1..(selected - 1) : ~OfferRegistered(j)
              /\ pc[1] # "idle" => req[1] = RequirementsOf(offers[selected])
              /\ Len(requests) = 2
                    => requests[2].payment.Authorization.Value = offers[selected].amount)
    /\ (ostate \in {"Retrying", "Done"} /\ Len(requests) = 2) => selected # 0
    /\ (ostate = "Failed" /\ ending.failure = "NoSchemeRegistered") => NoOfferRegistered

\* The first entry was skipped, the second used, and a third that is also
\* registered, for another amount, was not.
C28_Witness ==
    /\ Len(offers) = 3
    /\ selected = 2
    /\ ~OfferRegistered(1)
    /\ OfferRegistered(3)
    /\ offers[3].amount # offers[2].amount
    /\ Len(requests) = 2
    /\ requests[2].payment.Authorization.Value = offers[2].amount

\* C29: under fair scheduling every request that was sent reaches Done or
\* Failed, and no step leads from Retrying back to PaymentRequired.
C29_RequestTerminates ==
    /\ (ostate = "AwaitingResponse") ~> (ostate \in Terminal)
    /\ [][ostate = "Retrying" => ostate' # "PaymentRequired"]_vars

\* A request ended after the signer refused, another way to end than Done.
C29_Witness ==
    /\ ostate = "Failed"
    /\ ending.failure = "ErrFailedToSignAuthorization"
    /\ signings >= 1
    /\ Len(requests) = 1

----------------------------------------------------------------------------
(* Properties of the returned payload and of the chain queries *)

\* C31: the signature of a returned payload is the signer's, over the digest
\* (under a separator the call resolved) or the typed message built from the
\* from, to, value, validAfter, validBefore and nonce of the authorization in
\* that same payload; from is the signer's address and to is requirements.PayTo.
C31_SignatureBindsAuthorization ==
    \A c \in Callers :
        (pc[c] = "done" /\ HasPayload(c))
        => LET a == ret[c].payload.Authorization
               sig == ret[c].payload.Signature
           IN /\ a.From = SignerAddress
              /\ a.To = req[c].PayTo
              /\ sig.by = SignerAddress
              /\ \/ /\ sig.method = "SignDigest"
                    /\ \E sep \in ResolvedSeparators(c) : sig.over = Digest(a, sep)
                 \/ /\ sig.method = "SignTypedData"
                    /\ sig.over.message =
                          [from |-> a.From, to |-> a.To,
                           value |-> DecimalValue(a.Value),
                           validAfter |-> DecimalValue(a.ValidAfter),
                           validBefore |-> DecimalValue(a.ValidBefore),
                           nonce |-> a.Nonce]
                    /\ sig.over = TypedData(a, locals[c].chainID, locals[c].assetAddress,
                                            locals[c].tokenName, locals[c].tokenVersion)

\* C31's case: a payload for a positive amount, signed through SignTypedData
\* after the pinned SignDigest had failed, was returned.
C31_Witness ==
    \E c \in Callers :
        /\ pc[c] = "done"
        /\ HasPayload(c)
        /\ DecimalValue(ret[c].payload.Authorization.Value) > 0
        /\ Len(signerCalls[c]) = 2
        /\ ret[c].payload.Signature.method = "SignTypedData"
        /\ ret[c].payload.Signature.over.message.value
             = DecimalValue(ret[c].payload.Authorization.Value)

\* C33: a call queries the chain at most once, and a query that failed or
\* answered too few bytes is not made again.
C33_AtMostOneChainQuery ==
    \A c \in Callers :
        /\ chainQueries[c] <= 1
        /\ (pc[c] \in {"digestSign", "typedSign", "done"} /\ chainQueries[c] > 0
               /\ ~QueryDomainSeparator(chainAnswer[c]).ok)
           => chainQueries[c] = 1

\* C33's case: the one query of a call failed, and the call went on and
\* returned without another query.
C33_Witness ==
    \E c \in Callers :
        /\ pc[c] = "done"
        /\ chainQueries[c] = 1
        /\ chainAnswer[c].err
        /\ Len(signerCalls[c]) >= 1

\* C34: a call returns either an error with the zero-value payload, or no
\* error with a payload of version 2 that holds a signature and the call's
\* authorization; nothing in between.
C34_AllOrNothingReturn ==
    \A c \in Callers :
        pc[c] = "done"
        => \/ /\ ret[c].err # NoErr
              /\ ret[c].payload = ZeroPayload
           \/ /\ ret[c].err = NoErr
              /\ ret[c].payload.X402Version = 2
              /\ ret[c].payload.Signature # NoSignature
              /\ ret[c].payload.Signature.by = SignerAddress
              /\ ret[c].payload.Authorization # NoAuth
              /\ ret[c].payload.Authorization = auth[c]

\* C34's case: the authorization was built and handed to the signer, the
\* signer failed, and the call returned the error with the zero-value payload.
C34_Witness ==
    \E c \in Callers :
        /\ pc[c] = "done"
        /\ auth[c] # NoAuth
        /\ Len(signerCalls[c]) >= 1
        /\ ret[c].err.kind = "ErrFailedToSignAuthorization"
        /\ ret[c].payload = ZeroPayload

----------------------------------------------------------------------------
(* The two identifiers of Gate Layer Testnet *)

\* The typed-data domain of the default asset of Gate Layer Testnet, as
\* constants.go configures it for both identifiers.
DefaultDomain ==
    [Name |-> DefaultAssetGateLayer.Name, Version |-> DefaultAssetGateLayer.Version,
     ChainID |-> ChainIDGateLayerTestnet, VerifyingContract |-> GateLayerUSDC]

\* The EIP-712 separator of DefaultDomain,
\* keccak256(abi.encode(keccak256("EIP712Domain(string name,string version,
\* uint256 chainId,address verifyingContract)"), keccak256("USDC"),
\* keccak256("2"), 10087, 0x9be8Df37C788B244cFc28E46654aD5Ec28a880AF)), in hex.
DefaultDomainSeparatorHex ==
    <<"f", "c", "6", "1", "4", "6", "b", "7", "9", "e", "2", "e", "2", "4", "c", "b",
      "4", "c", "8", "8", "b", "c", "1", "b", "1", "0", "4", "2", "7", "c", "b", "0",
      "0", "2", "c", "2", "a", "3", "c", "9", "6", "c", "1", "b", "5", "a", "8", "d",
      "9", "5", "b", "e", "d", "2", "3", "4", "5", "9", "8", "a", "d", "3", "8", "e">>

\* The separator a signer derives from the domain of a SignTypedData request.
DomainSeparatorOf(domain) ==
    IF domain = DefaultDomain THEN HexDecodeString(DefaultDomainSeparatorHex)
    ELSE Keccak256(domain)

\* The digest an invocation of the signer signs: the digest it was handed, or
\* the EIP-712 digest of the typed data it was handed.
SignedDigest(call) ==
    IF call.method = "SignDigest" THEN call.arg
    ELSE Keccak256([prefix |-> <<25, 1>>,
                    domainSeparator |-> DomainSeparatorOf(call.arg.domain),
                    structHash |->
                        Keccak256(<<Word("hash", Keccak256(TransferWithAuthorizationType)),
                                    Word("address", HexToAddress(call.arg.message.from)),
                                    Word("address", HexToAddress(call.arg.message.to)),
                                    Word("uint256", call.arg.message.value),
                                    Word("uint256", call.arg.message.validAfter),
                                    Word("uint256", call.arg.message.validBefore),
                                    Word("bytes32", call.arg.message.nonce)>>)])

\* C35 (as claimed): with the default asset and no chain connection, a call
\* for gatelayer_testnet and a call for eip155:10087 resolve the same domain
\* separator: the first invocation of the signer signs the digest of the
\* call's authorization under the separator pinned for gatelayer_testnet.
C35_IdentifiersSameSeparator ==
    \A c \in Callers :
        (/\ Building(c)
         /\ req[c].Network \in ConfiguredNetworks
         /\ locals[c].assetAddress = DefaultAssetGateLayer.Address
         /\ locals[c].tokenName = DefaultAssetGateLayer.Name
         /\ locals[c].tokenVersion = DefaultAssetGateLayer.Version
         /\ ethClient = "nil"
         /\ DecimalValue(auth[c].Value) >= 0)
        => SignedDigest(signerCalls[c][1]) = Digest(auth[c], PinnedDomainSeparator)

----------------------------------------------------------------------------
(* Properties of the requests of HTTPFacilitatorClient: timestamp, version, *)
(* AuthProvider failure                                                     *)

\* The call has got past its checks or returned: its request, if any, is built.
Called == fpc \in {"sending", "done"}

\* C32 (as claimed): the X-Signature on a request is the HMAC over the prehash
\* built with the X-Timestamp that is on the request, also when a custom
\* AuthProvider set headers after the default signing.
C32_SignatureOverWireTimestamp ==
    (Sent /\ fwire.headers["X-Signature"].set)
    => /\ fwire.headers["X-Timestamp"].set
       /\ SignedMessage
            = fwire.headers["X-Timestamp"].value[1] \o gateWeb3SigningPath \o fwire.body

\* The payload bytes and the requirements bytes are both a JSON object, and
\* the payload's version is detected.
WellFormedInputs ==
    /\ fin.payload.json = "object"
    /\ fin.requirements.json = "object"
    /\ DetectVersion(fin.payload).ok

\* C36 (as claimed): a request of Verify or Settle carries the version detected
\* from the payload bytes as params.x402Version; when detection fails, or the
\* payload or the requirements bytes are no JSON object, the call returns an
\* error and no request is made.
C36_VersionDetectedOrRejected ==
    (Called /\ fop \in {"verify", "settle"})
    => /\ fsends > 0
          => fwire.requestBody.x402Version = DetectVersion(fin.payload).version
       /\ ~WellFormedInputs
          => (/\ fpc = "done"
              /\ fret.err # NoFacErr
              /\ fsends = 0
              /\ fwire = NoWire)

\* C37: when the AuthProvider's GetAuthHeaders returns an error, the operation
\* returns an error and no result, and hands no request to httpClient.Do.
C37_ProviderErrorSendsNothing ==
    (Called /\ authProvider # "nil" /\ ~GetAuthHeaders(authProvider).ok)
    => (/\ fpc = "done"
        /\ fret.err # NoFacErr
        /\ fret.result = NoResult
        /\ fsends = 0
        /\ fwire = NoWire
        /\ (fop = "supported" \/ WellFormedInputs)
              => (fret.err.msg = "failed to get auth headers"
                  /\ fret.err.wraps = "provider error"))

\* C37's case: a Settle with inputs that pass every earlier check and with
\* credentials in the environment returned the provider's error.
C37_Witness ==
    /\ fpc = "done"
    /\ authProvider = "failing"
    /\ fop = "settle"
    /\ WellFormedInputs
    /\ LoadGateWeb3Credentials(fin.env).ok
    /\ fret.err.msg = "failed to get auth headers"
    /\ fsends = 0

----------------------------------------------------------------------------
(* Token name and version of the typed-data domain *)

\* The value the claim gives a domain member: the string of Extra under its
\* key when there is one, else the asset's default.
ExtraOrDefault(extra, default) ==
    IF extra.present /\ extra.isString THEN extra.str ELSE default

\* C38: the token name and the token version of a call are resolved each on
\* its own, the string in requirements.Extra when there is one and the asset's
\* default otherwise, and the domain of every SignTypedData request holds them.
C38_NameVersionIndependent ==
    \A c \in Callers :
        Building(c)
        => LET info == GetAssetInfo(req[c].Network, req[c].Asset).info
               name == ExtraOrDefault(req[c].ExtraName, info.Name)
               version == ExtraOrDefault(req[c].ExtraVersion, info.Version)
           IN /\ locals[c].tokenName = name
              /\ locals[c].tokenVersion = version
              /\ \A i \in 1..Len(signerCalls[c]) :
                    signerCalls[c][i].method = "SignTypedData"
                    => (/\ signerCalls[c][i].arg.domain.Name = name
                        /\ signerCalls[c][i].arg.domain.Version = version)

\* C38's case: Extra holds a name and a version that is no string, and the
\* signer was handed the domain with Extra's name and the asset's version.
C38_Witness ==
    \E c \in Callers :
        /\ Building(c)
        /\ req[c].ExtraName = [present |-> TRUE, isString |-> TRUE, str |-> "Token"]
        /\ req[c].ExtraVersion.present
        /\ ~req[c].ExtraVersion.isString
        /\ Len(signerCalls[c]) = 1
        /\ signerCalls[c][1].method = "SignTypedData"
        /\ signerCalls[c][1].arg.domain.Name = "Token"
        /\ signerCalls[c][1].arg.domain.Version = DefaultAssetGateLayer.Version

----------------------------------------------------------------------------
(* Length of the struct encoding *)

\* The bytes of the k-th 32-byte word of the encoding.
WordAt(k) == SubSeq(enc.encoded, WordLen * (k - 1) + 1, WordLen * k)

\* C39 (as claimed): the encoding that is hashed is 7 x 32 = 224 bytes long
\* for every authorization: value, validAfter and validBefore take exactly 32
\* bytes each, and the nonce the last 32.
C39_EncodingIs224Bytes ==
    enc.pc = "hashed"
    => (/\ Len(enc.encoded) = 7 * WordLen
        /\ Len(LeftPadBytes(ParsedBytes(enc.authorization.Value), WordLen)) = WordLen
        /\ Len(LeftPadBytes(ParsedBytes(enc.authorization.ValidAfter), WordLen)) = WordLen
        /\ Len(LeftPadBytes(ParsedBytes(enc.authorization.ValidBefore), WordLen)) = WordLen
        /\ WordAt(7) = NonceBytes(enc.authorization.Nonce))

====
